---------------------------- MODULE Spec2Model ----------------------------
(***************************************************************************)
(* Model of the terminal UI of ex-compile-graph (src/ui/src).              *)
(*                                                                         *)
(* Seven specifications are given over one set of variables, each leaving  *)
(* the variables of the other subsystems unchanged:                        *)
(*   SpecAdapter - the threaded protocol adapter (adapter.rs): the UI      *)
(*                 thread issuing requests and polling responses, the I/O  *)
(*                 thread owning the pipe, and the subprocess writing      *)
(*                 arbitrary lines to its stdout.                          *)
(*   SpecAdapterFair - the same adapter with a subprocess that answers     *)
(*                 every request it reads except the init request, the     *)
(*                 threads and the subprocess running fairly.              *)
(*   SpecAdapterAnswered - the same adapter with a subprocess that reads   *)
(*                 every request and answers it or leaves it unanswered.   *)
(*   SpecFilter  - filter_files_list (utils.rs) called on a bounded set    *)
(*                 of lists, search states and matcher scores.             *)
(*   SpecNav     - the dependents-panel navigator                          *)
(*                 (components/file_dependent_panel.rs): the two-level     *)
(*                 cursor driven by key presses.                           *)
(*   SpecGlobal  - AppState::handle_event (app_state.rs): the top-level    *)
(*                 state machine, the navigation anchor and the two        *)
(*                 search inputs (components/search_input.rs), driven by   *)
(*                 events as in its unit tests.                            *)
(*   SpecApp     - the main loop (main.rs): one frame per step, building   *)
(*                 the widget board, turning a key press into an event     *)
(*                 and dispatching it, with the completions that arrived   *)
(*                 and every follow-up event, to the active panel, the     *)
(*                 cause panel and AppState, and ending with the check of  *)
(*                 the subprocess's status; the subprocess may exit        *)
(*                 between frames.                                         *)
(* Option<T> values are modelled as sequences: <<>> is None, <<x>> is      *)
(* Some(x).                                                                *)
(***************************************************************************)
EXTENDS Integers, Sequences, FiniteSets, TLC

None == << >>
Some(x) == << x >>
IsSome(o) == o # << >>
Unwrap(o) == o[1]

(***************************************************************************)
(* Bounds of the model.                                                    *)
(***************************************************************************)
\* number of requests the UI thread issues in one run
MaxRequests == 3
\* number of lines the subprocess writes to its stdout in one run
MaxLines == 3
\* number of entries of a dependents list
MaxFiles == 3
\* number of links of one dependency chain
MaxChain == 3
\* length of a search text entered through AppState::handle_event
MaxText == 3
\* length of a search text typed in the main loop
MaxPrompt == 1
\* number of requests awaiting their completion in the main loop
MaxPending == 1

VARIABLES
    \* ---- adapter.rs: struct Adapter and the I/O thread ----
    request_sequence_id,  \* Adapter.request_sequence_id
    request_channel,      \* the mpsc channel request_sender -> rx
    pending_requests,     \* Adapter.pending_requests: (id, callback kind)
    pending_responses,    \* Adapter.pending_responses: (id, body)
    io_state,             \* I/O thread: "recv" (blocked in rx.iter()),
                          \* "wait" (in wait_for_response), "panicked"
    io_request,           \* id the I/O thread waits a response for
    child_stdin,          \* request lines written to the subprocess
    child_stdout,         \* lines written by the subprocess, not yet read
    lines_emitted,        \* number of lines the subprocess has written
    ui_panicked,          \* the UI thread panicked on an unwrap()
    issued,               \* history: requests in call order
    callback_log,         \* history: completion callbacks invoked
    deposited,            \* history: responses pushed to pending_responses
    subprocess_read,      \* number of request lines the subprocess has read
    subprocess_skipped,   \* ids of the requests it read and will not answer
    \* ---- file_dependent_panel.rs: State and its widget ----
    files,                \* FileDependentPanel.files
    selected_file_index,  \* State.selected_file_index: <<outer, inner>>
    expanded_file,        \* State.expanded_file
    nav_panicked,         \* a handler panicked (index out of bounds, ...)
    nav_op,               \* history: the last key handled
    nav_prev,             \* history: State before the last key
    nav_emitted,          \* history: events sent by the last handler
    viewed_link,          \* consumer: the link counted as being viewed
    view_overlap,         \* consumer: a startView arrived while viewing
    viewed_link_c,        \* the same for a consumer that also ends the
    view_overlap_c,       \* viewing on Cancel, as the cause panel does
    \* ---- app_state.rs: GlobalState ----
    state_machine,               \* "FilePanelView" or "FileDependentsView"
    selected_dependency_source,  \* Option<FileEntry>
    file_panel_search,           \* search_input::State
    file_dependent_panel_search, \* search_input::State
    files_list,                  \* Option<Vec<FileEntry>>
    \* ---- file_panel.rs: State ----
    file_panel_index,            \* State.selected_file_index of the file panel
    \* ---- dependency_cause_panel.rs: State ----
    dependency_causes,           \* State.dependency_causes
    viewing_recompile_dependency_file,
    \* ---- main.rs ----
    app_pending,          \* completions the adapter still owes, in order
    app_panicked,         \* the main loop panicked
    app_event,            \* history: the last event dispatched from outside
    app_prev,             \* history: GlobalState before that event
    app_emitted,          \* history: events sent while handling it
    app_dispatched,       \* history: the dispatch_event calls of the last
                          \* frame, in order
    server_process,       \* the subprocess: whether it has exited and what
                          \* it wrote to stderr
    main_loop,            \* "running", or why 'main_loop was left
    exit_output,          \* render's exit_output, printed at shutdown
    server_checked,       \* history: the last frame's call of
                          \* check_server_status, if it made one
    \* ---- utils.rs: one call of filter_files_list ----
    filter_input,         \* the list, the search state and the matcher's
                          \* scores
    filter_output         \* Option: the list returned

adapter_vars == << request_sequence_id, request_channel, pending_requests,
                   pending_responses, io_state, io_request, child_stdin,
                   child_stdout, lines_emitted, ui_panicked, issued,
                   callback_log, deposited, subprocess_read,
                   subprocess_skipped >>

nav_vars == << files, selected_file_index, expanded_file, nav_panicked,
               nav_op, nav_prev, nav_emitted, viewed_link, view_overlap,
               viewed_link_c, view_overlap_c >>

app_vars == << state_machine, selected_dependency_source, file_panel_search,
               file_dependent_panel_search, files_list, file_panel_index,
               dependency_causes, viewing_recompile_dependency_file,
               app_pending, app_panicked, app_event, app_prev, app_emitted,
               app_dispatched, server_process, main_loop, exit_output,
               server_checked >>

filter_vars == << filter_input, filter_output >>

vars == << adapter_vars, nav_vars, app_vars, filter_vars >>

(***************************************************************************)
(* ---------------------------- adapter.rs ------------------------------- *)
(***************************************************************************)

\* Response bodies the subprocess may send: "[]", an empty JSON list, which
\* decodes against both expected schemas, and "null", which decodes
\* against neither.
Bodies == { "[]", "null" }

\* serde_json::from_str::<Vec<FileEntry>>(body) is Ok
DecodesAsFiles(body) == body = "[]"
\* serde_json::from_str::<Vec<DependencyCause>>(body) is Ok
DecodesAsCauses(body) == body = "[]"

\* Arguments of get_dependency_causes: <<source, sink, reason>>
CauseArgs == { << "lib/a.ex", "lib/b.ex", "compile" >> }

\* Lines on the subprocess's stdout.  head is the text before the first
\* '[': "S" for a response header, anything else (here "C") for a line the
\* regex rejects.  body is the text after "]:", "" when there is none.
\* Every response line "S[<id>]:<body>" is there, and two lines the regex
\* rejects: one with another head and one with no body.
Lines ==
    [ head : { "S" }, id : 0 .. (MaxRequests - 1), body : Bodies ]
    \cup { [ head |-> "C", id |-> 0, body |-> "[]" ],
           [ head |-> "S", id |-> 0, body |-> "" ] }

\* The regex ^S\[(\d+)\]:(.+)\n$ of wait_for_response: the captures, or
\* None when the line does not match.
ResponseRegex(line) ==
    IF line.head = "S" /\ line.body # ""
    THEN Some([ id |-> line.id, body |-> line.body ])
    ELSE None

\* wait_for_response on one line: "retry" (recursive call, read the next
\* line), "ok" with the body, or "err".
wait_for_response_any_id(line, request_id) ==
    LET caps == ResponseRegex(line) IN
    IF IsSome(caps)
    THEN [ result |-> "ok", body |-> Unwrap(caps).body,
           line_id |-> Unwrap(caps).id ]
    ELSE [ result |-> "retry" ]

wait_for_response(line, request_id) ==
    LET caps == ResponseRegex(line) IN
    IF IsSome(caps)
    THEN IF Unwrap(caps).id = request_id
         THEN [ result |-> "ok", body |-> Unwrap(caps).body,
                line_id |-> Unwrap(caps).id ]
         ELSE [ result |-> "err" ]
    ELSE [ result |-> "retry" ]

\* request_sender.send(..).unwrap(): fails once the I/O thread is gone
\* and the receiver dropped.
SendRequest(kind, payload) ==
    IF io_state = "panicked"
    THEN /\ ui_panicked' = TRUE
         /\ UNCHANGED << request_channel, request_sequence_id, issued >>
    ELSE /\ request_channel' = Append(request_channel,
                [ id |-> request_sequence_id, payload |-> payload ])
         /\ issued' = Append(issued,
                [ id |-> request_sequence_id, kind |-> kind ])
         /\ request_sequence_id' = request_sequence_id + 1
         /\ UNCHANGED ui_panicked

CanCall == ~ui_panicked /\ request_sequence_id < MaxRequests

\* (variant: the init request is registered with a callback)
init_server_registers ==
    /\ UNCHANGED << nav_vars, app_vars, filter_vars, subprocess_read,
                    subprocess_skipped >>
    /\ CanCall
    /\ pending_requests' = Append(pending_requests,
            [ id |-> request_sequence_id, kind |-> "GetFiles" ])
    /\ SendRequest("Init", [ type |-> "init" ])
    /\ UNCHANGED << pending_responses, io_state, io_request, child_stdin,
                    child_stdout, lines_emitted, callback_log, deposited >>

init_server ==
    /\ UNCHANGED << nav_vars, app_vars, filter_vars, subprocess_read,
                    subprocess_skipped >>
    /\ CanCall
    /\ SendRequest("Init", [ type |-> "init" ])
    /\ UNCHANGED << pending_requests, pending_responses, io_state,
                    io_request, child_stdin, child_stdout, lines_emitted,
                    callback_log, deposited >>

get_files_no_increment ==
    /\ UNCHANGED << nav_vars, app_vars, filter_vars, subprocess_read,
                    subprocess_skipped >>
    /\ CanCall
    /\ Len(issued) < MaxRequests
    /\ pending_requests' = Append(pending_requests,
            [ id |-> request_sequence_id, kind |-> "GetFiles" ])
    /\ IF io_state = "panicked"
       THEN ui_panicked' = TRUE /\ UNCHANGED << request_channel, issued >>
       ELSE /\ request_channel' = Append(request_channel,
                   [ id |-> request_sequence_id,
                     payload |-> [ type |-> "get_files" ] ])
            /\ issued' = Append(issued,
                   [ id |-> request_sequence_id, kind |-> "GetFiles" ])
            /\ UNCHANGED ui_panicked
    /\ UNCHANGED << request_sequence_id, pending_responses, io_state,
                    io_request, child_stdin, child_stdout, lines_emitted,
                    callback_log, deposited >>

get_files ==
    /\ UNCHANGED << nav_vars, app_vars, filter_vars, subprocess_read,
                    subprocess_skipped >>
    /\ CanCall
    /\ pending_requests' = Append(pending_requests,
            [ id |-> request_sequence_id, kind |-> "GetFiles" ])
    /\ SendRequest("GetFiles", [ type |-> "get_files" ])
    /\ UNCHANGED << pending_responses, io_state, io_request, child_stdin,
                    child_stdout, lines_emitted, callback_log, deposited >>

\* The payload get_dependency_causes serialises:
\* {"type":"get_dependency_causes","source":..,"sink":..,"reason":..}
CausesPayload(source, sink, reason) ==
    [ type |-> "get_dependency_causes", source |-> source, sink |-> sink,
      reason |-> reason ]

get_dependency_causes(source, sink, reason) ==
    /\ UNCHANGED << nav_vars, app_vars, filter_vars, subprocess_read,
                    subprocess_skipped >>
    /\ CanCall
    /\ pending_requests' = Append(pending_requests,
            [ id |-> request_sequence_id, kind |-> "GetDependencyCauses" ])
    /\ SendRequest("GetDependencyCauses", CausesPayload(source, sink, reason))
    /\ UNCHANGED << pending_responses, io_state, io_request, child_stdin,
                    child_stdout, lines_emitted, callback_log, deposited >>

\* pending_requests.iter().position(|(request_id, _)| *request_id == id)
RECURSIVE Position(_, _, _)
Position(requests, id, i) ==
    IF i > Len(requests) THEN 0
    ELSE IF requests[i].id = id THEN i
    ELSE Position(requests, id, i + 1)

RemoveAt(s, i) == SubSeq(s, 1, i - 1) \o SubSeq(s, i + 1, Len(s))

\* The drain loop of poll_responses over the buffered responses: the
\* pending requests left, the callbacks invoked, and whether a decode
\* unwrap() panicked.
RECURSIVE PollLoop(_, _, _)
PollLoop(responses, requests, log) ==
    IF responses = << >>
    THEN [ requests |-> requests, log |-> log, panicked |-> FALSE ]
    ELSE
      LET r == Head(responses)
          index == Position(requests, r.id, 1)
      IN
      IF index = 0
      THEN PollLoop(Tail(responses), requests, log)
      ELSE
        LET kind == requests[index].kind
            rest == RemoveAt(requests, index)
            decodes == IF kind = "GetFiles" THEN DecodesAsFiles(r.body)
                       ELSE DecodesAsCauses(r.body)
        IN
        IF decodes
        THEN PollLoop(Tail(responses), rest,
                 Append(log, [ id |-> requests[index].id, kind |-> kind,
                               body |-> r.body, line_id |-> r.line_id ]))
        ELSE [ requests |-> rest, log |-> log, panicked |-> TRUE ]

poll_responses ==
    /\ UNCHANGED << nav_vars, app_vars, filter_vars, subprocess_read,
                    subprocess_skipped >>
    /\ ~ui_panicked
    /\ pending_responses # << >>
    /\ LET out == PollLoop(pending_responses, pending_requests,
                           callback_log)
       IN /\ pending_requests' = out.requests
          /\ callback_log' = out.log
          /\ ui_panicked' = out.panicked
    /\ pending_responses' = << >>
    /\ UNCHANGED << request_sequence_id, request_channel, io_state,
                    io_request, child_stdin, child_stdout, lines_emitted,
                    issued, deposited >>

\* (variant: the next request is written while a response is awaited)
IoSendRequest_pipelined ==
    /\ UNCHANGED << nav_vars, app_vars, filter_vars, subprocess_read,
                    subprocess_skipped >>
    /\ io_state \in { "recv", "wait" }
    /\ request_channel # << >>
    /\ LET req == Head(request_channel) IN
       /\ child_stdin' = Append(child_stdin, req)
       /\ io_request' = Some(req.id)
    /\ request_channel' = Tail(request_channel)
    /\ io_state' = "wait"
    /\ UNCHANGED << request_sequence_id, pending_requests,
                    pending_responses, child_stdout, lines_emitted,
                    ui_panicked, issued, callback_log, deposited >>

\* I/O thread: take the next request from the channel and write
\* "C[<id>]:<payload>\n" to the subprocess.
IoSendRequest ==
    /\ UNCHANGED << nav_vars, app_vars, filter_vars, subprocess_read,
                    subprocess_skipped >>
    /\ io_state = "recv"
    /\ request_channel # << >>
    /\ LET req == Head(request_channel) IN
       /\ child_stdin' = Append(child_stdin, req)
       /\ io_request' = Some(req.id)
    /\ request_channel' = Tail(request_channel)
    /\ io_state' = "wait"
    /\ UNCHANGED << request_sequence_id, pending_requests,
                    pending_responses, child_stdout, lines_emitted,
                    ui_panicked, issued, callback_log, deposited >>

\* I/O thread: one read_line inside wait_for_response, and what the loop
\* body does with its result.
IoReadLine ==
    /\ UNCHANGED << nav_vars, app_vars, filter_vars, subprocess_read,
                    subprocess_skipped >>
    /\ io_state = "wait"
    /\ child_stdout # << >>
    /\ LET res == wait_for_response(Head(child_stdout), Unwrap(io_request))
       IN
       CASE res.result = "retry" ->
              UNCHANGED << io_state, io_request, pending_responses,
                           deposited >>
         [] res.result = "ok" ->
              /\ pending_responses' = Append(pending_responses,
                     [ id |-> Unwrap(io_request), body |-> res.body,
                       line_id |-> res.line_id ])
              /\ deposited' = Append(deposited,
                     [ id |-> Unwrap(io_request), body |-> res.body,
                       line_id |-> res.line_id ])
              /\ io_state' = "recv"
              /\ io_request' = None
         [] res.result = "err" ->
              /\ io_state' = "panicked"
              /\ UNCHANGED << io_request, pending_responses, deposited >>
    /\ child_stdout' = Tail(child_stdout)
    /\ UNCHANGED << request_sequence_id, request_channel, pending_requests,
                    child_stdin, lines_emitted, ui_panicked, issued,
                    callback_log >>

\* The subprocess writes one line, whatever it is.
SubprocessWrite(line) ==
    /\ UNCHANGED << nav_vars, app_vars, filter_vars, subprocess_read,
                    subprocess_skipped >>
    /\ lines_emitted < MaxLines
    /\ child_stdout' = Append(child_stdout, line)
    /\ lines_emitted' = lines_emitted + 1
    /\ UNCHANGED << request_sequence_id, request_channel, pending_requests,
                    pending_responses, io_state, io_request, child_stdin,
                    ui_panicked, issued, callback_log, deposited >>

\* The requests written to the subprocess that call for a response line
\* from a subprocess that answers every request but the init request
RECURSIVE Answerable(_)
Answerable(written) ==
    IF written = << >> THEN << >>
    ELSE IF Head(written).payload.type = "init"
    THEN Answerable(Tail(written))
    ELSE << Head(written) >> \o Answerable(Tail(written))

\* A subprocess that reads the requests in order and answers each with
\* "S[<id>]:[]", except that it never answers the init request.
SubprocessAnswer ==
    /\ UNCHANGED << nav_vars, app_vars, filter_vars, subprocess_read,
                    subprocess_skipped >>
    /\ lines_emitted < Len(Answerable(child_stdin))
    /\ child_stdout' = Append(child_stdout,
            [ head |-> "S",
              id |-> Answerable(child_stdin)[lines_emitted + 1].id,
              body |-> "[]" ])
    /\ lines_emitted' = lines_emitted + 1
    /\ UNCHANGED << request_sequence_id, request_channel, pending_requests,
                    pending_responses, io_state, io_request, child_stdin,
                    ui_panicked, issued, callback_log, deposited >>

\* A subprocess that reads the request lines in order and answers the one
\* it has read with "S[<id>]:[]"
SubprocessRespond ==
    /\ UNCHANGED << nav_vars, app_vars, filter_vars >>
    /\ subprocess_read < Len(child_stdin)
    /\ child_stdout' = Append(child_stdout,
            [ head |-> "S", id |-> child_stdin[subprocess_read + 1].id,
              body |-> "[]" ])
    /\ subprocess_read' = subprocess_read + 1
    /\ lines_emitted' = lines_emitted + 1
    /\ UNCHANGED << request_sequence_id, request_channel, pending_requests,
                    pending_responses, io_state, io_request, child_stdin,
                    ui_panicked, issued, callback_log, deposited,
                    subprocess_skipped >>

\* The subprocess reads a request line and never writes a response to it
SubprocessSkip ==
    /\ UNCHANGED << nav_vars, app_vars, filter_vars >>
    /\ subprocess_read < Len(child_stdin)
    /\ subprocess_read' = subprocess_read + 1
    /\ subprocess_skipped' =
          subprocess_skipped \cup { child_stdin[subprocess_read + 1].id }
    /\ UNCHANGED << request_sequence_id, request_channel, pending_requests,
                    pending_responses, io_state, io_request, child_stdin,
                    child_stdout, lines_emitted, ui_panicked, issued,
                    callback_log, deposited >>

InitAdapterVars ==
    /\ request_sequence_id = 0
    /\ request_channel = << >>
    /\ pending_requests = << >>
    /\ pending_responses = << >>
    /\ io_state = "recv"
    /\ io_request = None
    /\ child_stdin = << >>
    /\ child_stdout = << >>
    /\ lines_emitted = 0
    /\ ui_panicked = FALSE
    /\ issued = << >>
    /\ callback_log = << >>
    /\ deposited = << >>
    /\ subprocess_read = 0
    /\ subprocess_skipped = { }

(***************************************************************************)
(* ----------------- components/file_dependent_panel.rs ------------------ *)
(***************************************************************************)

EntryNames == << "one", "two", "three", "four", "five" >>
DependencyTypes == << "compile", "exports", "runtime" >>

\* DependencyLink number i (from 0) of the chain of entry name
DependencyLink(name, i) ==
    [ source |-> IF i = 0 THEN << "source", 0 >> ELSE << name, i >>,
      sink |-> << name, i + 1 >>,
      dependency_type |-> DependencyTypes[(i % 3) + 1] ]

\* RecomplileDependency with a chain of chain_len links
RecomplileDependency(name, chain_len) ==
    [ id |-> name, path |-> << name, 0 >>, reason |-> "compile",
      dependency_chain |-> [ i \in 1 .. chain_len |->
                                 DependencyLink(name, i - 1) ] ]

\* The dependents lists a FileDependentPanel is built with: up to MaxFiles
\* entries with distinct ids, each with a chain of up to MaxChain links.
Widgets ==
    UNION { { [ j \in 1 .. n |-> RecomplileDependency(EntryNames[j], lens[j]) ] :
                lens \in [ 1 .. n -> 0 .. MaxChain ] } : n \in 0 .. MaxFiles }

\* State::new()
NewState == [ selected_file_index |-> << 0, None >>, expanded_file |-> None ]

ViewDependentFile(link) == [ event |-> "ViewDependentFile", link |-> link ]
StopViewDependentFile(link) ==
    [ event |-> "StopViewDependentFile", link |-> link ]

\* widget.files[i] and dependency_chain[i] are bounds-checked: an index
\* outside the vector panics.
InBounds(vec, i) == i >= 0 /\ i < Len(vec)
At(vec, i) == vec[i + 1]

Panic(state, events) ==
    [ state |-> state, events |-> events, panic |-> TRUE ]
Done(state, events) ==
    [ state |-> state, events |-> events, panic |-> FALSE ]

WithInner(state, inner) ==
    [ state EXCEPT !.selected_file_index = << state.selected_file_index[1], inner >> ]
WithOuter(state, outer) ==
    [ state EXCEPT !.selected_file_index = << outer, state.selected_file_index[2] >> ]

\* (variant: the end of the whole list is not told apart)
DownActions_always_exit(state, widget_files) ==
    LET outer_list_index == state.selected_file_index[1]
        inner == state.selected_file_index[2]
    IN
    IF IsSome(state.expanded_file)
    THEN IF ~InBounds(widget_files, outer_list_index) THEN << "panic" >>
         ELSE
           LET file == At(widget_files, outer_list_index)
               expanded_list_len == Len(file.dependency_chain)
           IN
           IF file.id = Unwrap(state.expanded_file)
           THEN IF IsSome(inner) /\ expanded_list_len = 0
                THEN << "panic" >>
                ELSE IF IsSome(inner)
                        /\ Unwrap(inner) = expanded_list_len - 1
                THEN << "ExitExpandedList", "NextOuterList" >>
                ELSE << "NextExpandedList" >>
           ELSE << "NextOuterList" >>
    ELSE << "NextOuterList" >>

\* The match that selects the actions of handle_down_button_pressed.
\* << "panic" >> stands for a panic while evaluating it.
DownActions(state, widget_files) ==
    LET outer_list_len == Len(widget_files)
        outer_list_index == state.selected_file_index[1]
        inner == state.selected_file_index[2]
    IN
    IF IsSome(state.expanded_file)
    THEN IF ~InBounds(widget_files, outer_list_index) THEN << "panic" >>
         ELSE
           LET file == At(widget_files, outer_list_index)
               at_expanded_file == file.id = Unwrap(state.expanded_file)
               expanded_list_len == Len(file.dependency_chain)
           IN
           IF at_expanded_file
           THEN IF IsSome(inner) /\ expanded_list_len = 0
                \* expanded_list_len - 1 overflows: a panic with overflow
                \* checks; without them the guard is false and
                \* stop_view_file_event indexes the empty chain
                THEN << "panic" >>
                ELSE IF IsSome(inner)
                        /\ Unwrap(inner) = expanded_list_len - 1
                THEN IF outer_list_index = outer_list_len - 1
                     THEN << >>
                     ELSE << "ExitExpandedList", "NextOuterList" >>
                ELSE << "NextExpandedList" >>
           ELSE << "NextOuterList" >>
    ELSE << "NextOuterList" >>

\* Action::NextOuterList
DownNextOuterList_no_clamp(state, events, widget_files) ==
    Done(WithOuter(state, state.selected_file_index[1] + 1), events)

DownNextOuterList(state, events, widget_files) ==
    LET outer == state.selected_file_index[1] IN
    IF Len(widget_files) # 0 /\ outer < Len(widget_files) - 1
    THEN Done(WithOuter(state, outer + 1), events)
    ELSE Done(state, events)

\* Action::NextExpandedList
DownNextExpandedList_view_first(state, events, widget_files) ==
    LET outer == state.selected_file_index[1]
        inner == state.selected_file_index[2]
        chain == At(widget_files, outer).dependency_chain
    IN
    IF IsSome(inner)
    THEN LET index == Unwrap(inner) IN
         IF ~InBounds(chain, index) \/ ~InBounds(chain, index + 1)
         THEN Panic(state, events)
         ELSE Done(WithInner(state, Some(index + 1)),
                   events \o << ViewDependentFile(At(chain, index + 1)),
                                StopViewDependentFile(At(chain, index)) >>)
    ELSE IF ~InBounds(chain, 0) THEN Panic(state, events)
         ELSE Done(WithInner(state, Some(0)),
                   Append(events, ViewDependentFile(At(chain, 0))))

DownNextExpandedList_enter_silent(state, events, widget_files) ==
    LET outer == state.selected_file_index[1]
        inner == state.selected_file_index[2]
        chain == At(widget_files, outer).dependency_chain
    IN
    IF IsSome(inner)
    THEN LET index == Unwrap(inner) IN
         IF ~InBounds(chain, index) \/ ~InBounds(chain, index + 1)
         THEN Panic(state, events)
         ELSE Done(WithInner(state, Some(index + 1)),
                   events \o << StopViewDependentFile(At(chain, index)),
                                ViewDependentFile(At(chain, index + 1)) >>)
    ELSE IF ~InBounds(chain, 0) THEN Panic(state, events)
         ELSE Done(WithInner(state, Some(0)), events)

DownNextExpandedList(state, events, widget_files) ==
    LET outer == state.selected_file_index[1]
        inner == state.selected_file_index[2]
    IN
    IF ~InBounds(widget_files, outer) THEN Panic(state, events)
    ELSE
      LET chain == At(widget_files, outer).dependency_chain IN
      IF IsSome(inner)
      THEN LET index == Unwrap(inner) IN
           \* stop_view_file_event(state, index, widget)
           IF ~InBounds(chain, index) THEN Panic(state, events)
           \* view_file_event(state, index + 1, widget)
           ELSE IF ~InBounds(chain, index + 1)
           THEN Panic(state, Append(events,
                    StopViewDependentFile(At(chain, index))))
           ELSE Done(WithInner(state, Some(index + 1)),
                     events \o << StopViewDependentFile(At(chain, index)),
                                  ViewDependentFile(At(chain, index + 1)) >>)
      ELSE IF ~InBounds(chain, 0) THEN Panic(state, events)
           ELSE Done(WithInner(state, Some(0)),
                     Append(events, ViewDependentFile(At(chain, 0))))

\* Action::ExitExpandedList of handle_down_button_pressed
DownExitExpandedList_silent(state, events, widget_files) ==
    LET inner == state.selected_file_index[2]
        chain == At(widget_files, state.selected_file_index[1]).dependency_chain
    IN
    IF ~IsSome(inner) \/ ~InBounds(chain, Unwrap(inner))
    THEN Panic(state, events)
    ELSE Done(WithInner(state, None), events)

DownExitExpandedList(state, events, widget_files) ==
    LET outer == state.selected_file_index[1]
        inner == state.selected_file_index[2]
    IN
    IF ~InBounds(widget_files, outer) THEN Panic(state, events)
    ELSE
      LET chain == At(widget_files, outer).dependency_chain IN
      IF ~IsSome(inner) \/ ~InBounds(chain, Unwrap(inner))
      THEN Panic(state, events)
      ELSE Done(WithInner(state, None),
                Append(events,
                       StopViewDependentFile(At(chain, Unwrap(inner)))))

\* One iteration of the loop over the actions.
DownAction(action, state, events, widget_files) ==
    CASE action = "panic" -> Panic(state, events)
      [] action = "NextOuterList" ->
           DownNextOuterList(state, events, widget_files)
      [] action = "NextExpandedList" ->
           DownNextExpandedList(state, events, widget_files)
      [] action = "ExitExpandedList" ->
           DownExitExpandedList(state, events, widget_files)

RECURSIVE DownLoop(_, _, _)
DownLoop(actions, acc, widget_files) ==
    IF actions = << >> \/ acc.panic THEN acc
    ELSE DownLoop(Tail(actions),
                  DownAction(Head(actions), acc.state, acc.events, widget_files),
                  widget_files)

handle_down_button_pressed(state, widget_files) ==
    DownLoop(DownActions(state, widget_files), Done(state, << >>), widget_files)

\* handle_up_button_pressed: the match that selects the action, then the
\* action.
UpAction(state, widget_files) ==
    LET outer == state.selected_file_index[1]
        inner == state.selected_file_index[2]
    IN
    IF IsSome(state.expanded_file)
    THEN IF ~InBounds(widget_files, outer) THEN "panic"
         ELSE IF At(widget_files, outer).id = Unwrap(state.expanded_file)
         THEN IF inner = Some(0) THEN "ExitExpandedList"
              ELSE IF inner = None THEN "PrevOuterList"
              ELSE "PrevExpandedList"
         ELSE "PrevOuterList"
    ELSE "PrevOuterList"

\* Action::PrevOuterList
UpPrevOuterList_silent(state, widget_files) ==
    LET outer == state.selected_file_index[1] IN
    IF outer > 0
    THEN LET moved == WithOuter(state, outer - 1) IN
         IF /\ IsSome(state.expanded_file)
            /\ InBounds(widget_files, outer - 1)
            /\ At(widget_files, outer - 1).id = Unwrap(state.expanded_file)
            /\ Len(At(widget_files, outer - 1).dependency_chain) > 0
         THEN Done(WithInner(moved,
                     Some(Len(At(widget_files, outer - 1).dependency_chain) - 1)),
                   << >>)
         ELSE Done(moved, << >>)
    ELSE Done(state, << >>)

UpPrevOuterList(state, widget_files) ==
    LET outer == state.selected_file_index[1] IN
    IF outer > 0
    THEN LET moved == WithOuter(state, outer - 1) IN
         IF IsSome(state.expanded_file)
         THEN IF ~InBounds(widget_files, outer - 1)
              THEN Panic(moved, << >>)
              ELSE
                LET selected_file == At(widget_files, outer - 1)
                    chain == selected_file.dependency_chain
                IN
                IF selected_file.id = Unwrap(state.expanded_file)
                THEN IF Len(chain) = 0
                     \* len() - 1 overflows: a panic with overflow checks,
                     \* an out-of-bounds index without them
                     THEN Panic(moved, << >>)
                     ELSE Done(WithInner(moved, Some(Len(chain) - 1)),
                               << ViewDependentFile(At(chain, Len(chain) - 1)) >>)
                ELSE Done(moved, << >>)
         ELSE Done(moved, << >>)
    ELSE Done(state, << >>)

\* Action::PrevExpandedList
UpPrevExpandedList_view_first(state, widget_files) ==
    LET outer == state.selected_file_index[1]
        inner == state.selected_file_index[2]
    IN
    IF IsSome(inner) /\ Unwrap(inner) > 0
    THEN LET index == Unwrap(inner)
             chain == At(widget_files, outer).dependency_chain
             moved == WithInner(state, Some(index - 1))
         IN
         IF ~InBounds(chain, index) THEN Panic(moved, << >>)
         ELSE Done(moved, << ViewDependentFile(At(chain, index - 1)),
                             StopViewDependentFile(At(chain, index)) >>)
    ELSE Done(state, << >>)

UpPrevExpandedList(state, widget_files) ==
    LET outer == state.selected_file_index[1]
        inner == state.selected_file_index[2]
    IN
    IF IsSome(inner) /\ Unwrap(inner) > 0
    THEN LET index == Unwrap(inner)
             chain == At(widget_files, outer).dependency_chain
             moved == WithInner(state, Some(index - 1))
         IN
         IF ~InBounds(chain, index) THEN Panic(moved, << >>)
         ELSE Done(moved, << StopViewDependentFile(At(chain, index)),
                             ViewDependentFile(At(chain, index - 1)) >>)
    ELSE Done(state, << >>)

\* Action::ExitExpandedList of handle_up_button_pressed
UpExitExpandedList(state, widget_files) ==
    LET outer == state.selected_file_index[1]
        inner == state.selected_file_index[2]
        chain == At(widget_files, outer).dependency_chain
    IN
    IF ~InBounds(chain, Unwrap(inner)) THEN Panic(state, << >>)
    ELSE Done(WithInner(state, None),
              << StopViewDependentFile(At(chain, Unwrap(inner))) >>)

handle_up_button_pressed(state, widget_files) ==
    LET action == UpAction(state, widget_files) IN
    CASE action = "panic" -> Panic(state, << >>)
      [] action = "PrevOuterList" -> UpPrevOuterList(state, widget_files)
      [] action = "PrevExpandedList" -> UpPrevExpandedList(state, widget_files)
      [] action = "ExitExpandedList" -> UpExitExpandedList(state, widget_files)

\* State::handle_event, AppEvent::SelectDependentFile(file)
handle_select_dependent_file(state, file) ==
    IF IsSome(state.expanded_file) /\ Unwrap(state.expanded_file) = file.id
    THEN Done([ state EXCEPT !.expanded_file = None ], << >>)
    ELSE Done([ state EXCEPT !.expanded_file = Some(file.id) ], << >>)

\* State::handle_event, AppEvent::Cancel
handle_cancel_keeps_cursor(state) ==
    Done([ state EXCEPT !.expanded_file = None ], << >>)

handle_cancel(state) == Done(NewState, << >>)

\* State::produce_event on the Enter key: SelectDependentFile of the entry
\* at the outer index, None standing for the panic of an index out of
\* bounds.
produce_event_enter(state, widget_files) ==
    IF InBounds(widget_files, state.selected_file_index[1])
    THEN Some([ event |-> "SelectDependentFile",
                file |-> At(widget_files, state.selected_file_index[1]) ])
    ELSE None

\* A consumer of the navigator's events that counts a link as viewed from
\* its ViewDependentFile to the next StopViewDependentFile.
RECURSIVE Consume(_, _)
Consume(events, consumer) ==
    IF events = << >> THEN consumer
    ELSE LET e == Head(events) IN
         Consume(Tail(events),
             IF e.event = "ViewDependentFile"
             THEN [ viewed |-> Some(e.link),
                    overlap |-> consumer.overlap \/ IsSome(consumer.viewed) ]
             ELSE [ viewed |-> None, overlap |-> consumer.overlap ])

NavState == [ selected_file_index |-> selected_file_index,
              expanded_file |-> expanded_file ]

\* The effect of one handled key on the navigator and on the consumer.
NavStep(op, out) ==
    /\ nav_op' = op
    /\ nav_prev' = NavState
    /\ nav_emitted' = out.events
    /\ nav_panicked' = out.panic
    /\ selected_file_index' = out.state.selected_file_index
    /\ expanded_file' = out.state.expanded_file
    /\ LET c == IF out.panic
                THEN [ viewed |-> viewed_link, overlap |-> view_overlap ]
                ELSE Consume(out.events, [ viewed |-> viewed_link,
                                           overlap |-> view_overlap ])
       IN viewed_link' = c.viewed /\ view_overlap' = c.overlap
    /\ LET c == IF out.panic
                THEN [ viewed |-> viewed_link_c, overlap |-> view_overlap_c ]
                ELSE Consume(out.events,
                        [ viewed |-> IF op = "cancel" THEN None
                                     ELSE viewed_link_c,
                          overlap |-> view_overlap_c ])
       IN viewed_link_c' = c.viewed /\ view_overlap_c' = c.overlap
    /\ UNCHANGED << files, adapter_vars, app_vars, filter_vars >>

\* 'j' / Down key: AppEvent::DownButtonPressed
DownButtonPressed ==
    /\ ~nav_panicked
    /\ NavStep("down", handle_down_button_pressed(NavState, files))

\* 'k' / Up key: AppEvent::UpButtonPressed
UpButtonPressed ==
    /\ ~nav_panicked
    /\ NavStep("up", handle_up_button_pressed(NavState, files))

\* Enter key: AppEvent::SelectDependentFile(widget.files[index])
SelectDependentFile ==
    /\ ~nav_panicked
    /\ LET event == produce_event_enter(NavState, files) IN
       IF IsSome(event)
       THEN NavStep("select",
                    handle_select_dependent_file(NavState, Unwrap(event).file))
       ELSE NavStep("select", Panic(NavState, << >>))

\* Esc key: AppEvent::Cancel
Cancel ==
    /\ ~nav_panicked
    /\ NavStep("cancel", handle_cancel(NavState))

InitNavVars ==
    /\ selected_file_index = NewState.selected_file_index
    /\ expanded_file = NewState.expanded_file
    /\ nav_panicked = FALSE
    /\ nav_op = "none"
    /\ nav_prev = NewState
    /\ nav_emitted = << >>
    /\ viewed_link = None
    /\ view_overlap = FALSE
    /\ viewed_link_c = None
    /\ view_overlap_c = FALSE

(***************************************************************************)
(* -------------------- components/search_input.rs ---------------------- *)
(***************************************************************************)

\* enum State { None, Prompt(String), Search(String) }; a String is the
\* sequence of its characters.
StateNone == [ kind |-> "None", text |-> << >> ]
Prompt(input) == [ kind |-> "Prompt", text |-> input ]
Search(input) == [ kind |-> "Search", text |-> input ]

is_active(self) == self.kind \in { "Prompt", "Search" }
is_prompting(self) == self.kind = "Prompt"

prompt_begin(self) ==
    IF self.kind = "None" THEN Prompt(<< >>) ELSE self

prompt_add(self, char) ==
    IF self.kind = "Prompt" THEN Prompt(Append(self.text, char)) ELSE self

\* String::pop removes the last character, if there is one
prompt_remove_clears(self) ==
    IF self.kind = "Prompt" THEN Prompt(<< >>) ELSE self

prompt_remove(self) ==
    IF self.kind = "Prompt"
    THEN Prompt(IF self.text = << >> THEN << >>
                ELSE SubSeq(self.text, 1, Len(self.text) - 1))
    ELSE self

search(self) ==
    IF self.kind = "Prompt" THEN Search(self.text) ELSE self

cancel(self) ==
    IF self.kind \in { "Prompt", "Search" } THEN StateNone ELSE self

(***************************************************************************)
(* ----------------------------- app_state.rs ---------------------------- *)
(***************************************************************************)

\* The file entries of the project: one with two recompile dependencies,
\* one with none.  A FilePath is the sequence of its characters.
FileWithDependents ==
    [ path |-> << "l", "j" >>,
      recompile_dependencies |->
          << [ RecomplileDependency("one", 2) EXCEPT !.path = << "a", "j" >> ],
             [ RecomplileDependency("two", 1) EXCEPT !.path = << "b" >> ] >> ]

FileWithoutDependents ==
    [ path |-> << "m" >>, recompile_dependencies |-> << >> ]

FileEntries == { FileWithDependents, FileWithoutDependents }

\* The lists a get_files response decodes to
FileLists == { << >>, << FileWithDependents, FileWithoutDependents >> }

\* Characters of the SearchInput events given to AppState::handle_event
SearchChars == { "f", "o" }

\* AppState::new(): the GlobalState
NewGlobalState ==
    [ state_machine |-> "FilePanelView",
      selected_dependency_source |-> None,
      file_panel_search |-> StateNone,
      file_dependent_panel_search |-> StateNone,
      files_list |-> None ]

\* The method of search_input::State a search event calls
SearchCall(self, event) ==
    CASE event.event = "EnterSearch" -> prompt_begin(self)
      [] event.event = "SearchInput" -> prompt_add(self, event.char)
      [] event.event = "SearchInputDelete" -> prompt_remove(self)
      [] event.event = "SubmitSearch" -> search(self)

\* AppEvent::EnterSearch, SearchInput, SearchInputDelete, SubmitSearch: the
\* match on state_machine that picks the search input the method is called
\* on.
RouteSearch_both(global, event) ==
    [ global EXCEPT !.file_panel_search = SearchCall(@, event),
                    !.file_dependent_panel_search = SearchCall(@, event) ]

RouteSearch(global, event) ==
    IF global.state_machine = "FilePanelView"
    THEN [ global EXCEPT !.file_panel_search = SearchCall(@, event) ]
    ELSE [ global EXCEPT !.file_dependent_panel_search =
                             SearchCall(@, event) ]

\* AppEvent::SelectFile(file_entry)
AppSelectFile_no_anchor(global, file_entry) ==
    [ global EXCEPT !.state_machine = "FileDependentsView" ]

AppSelectFile(global, file_entry) ==
    [ global EXCEPT !.state_machine = "FileDependentsView",
                    !.selected_dependency_source = Some(file_entry) ]

\* AppEvent::Cancel, the two guarded arms
AppCancel_leaves_at_once(global) ==
    IF global.state_machine = "FilePanelView"
    THEN [ global EXCEPT !.file_panel_search = cancel(@) ]
    ELSE [ global EXCEPT !.file_dependent_panel_search = cancel(@),
                         !.state_machine = "FilePanelView",
                         !.selected_dependency_source = None ]

AppCancel_keeps_committed(global) ==
    IF global.state_machine = "FilePanelView"
    THEN IF is_prompting(global.file_panel_search)
         THEN [ global EXCEPT !.file_panel_search = cancel(@) ]
         ELSE global
    ELSE IF is_active(global.file_dependent_panel_search)
         THEN [ global EXCEPT !.file_dependent_panel_search = cancel(@) ]
         ELSE [ global EXCEPT !.state_machine = "FilePanelView",
                              !.selected_dependency_source = None ]

AppCancel(global) ==
    IF global.state_machine = "FilePanelView"
    THEN IF is_active(global.file_panel_search)
         THEN [ global EXCEPT !.file_panel_search = cancel(@) ]
         ELSE global
    ELSE IF is_active(global.file_dependent_panel_search)
         THEN [ global EXCEPT !.file_dependent_panel_search = cancel(@) ]
         ELSE [ global EXCEPT !.state_machine = "FilePanelView",
                              !.selected_dependency_source = None ]

\* AppState::handle_event: the new GlobalState and the events sent on the
\* dispatcher, which it never uses.
AppState_handle_event(global, event) ==
    LET state ==
        CASE event.event = "SelectFile" -> AppSelectFile(global, event.file)
          [] event.event = "GetFilesDone" ->
                [ global EXCEPT !.files_list = Some(event.files) ]
          [] event.event \in { "EnterSearch", "SearchInput",
                               "SearchInputDelete", "SubmitSearch" } ->
                RouteSearch(global, event)
          [] event.event = "Cancel" -> AppCancel(global)
          [] OTHER -> global
    IN [ state |-> state, events |-> << >> ]

Global ==
    [ state_machine |-> state_machine,
      selected_dependency_source |-> selected_dependency_source,
      file_panel_search |-> file_panel_search,
      file_dependent_panel_search |-> file_dependent_panel_search,
      files_list |-> files_list ]

\* The search input of the view that is active in global
ActiveSearch(global) ==
    IF global.state_machine = "FilePanelView"
    THEN global.file_panel_search
    ELSE global.file_dependent_panel_search

SetGlobal(global) ==
    /\ state_machine' = global.state_machine
    /\ selected_dependency_source' = global.selected_dependency_source
    /\ file_panel_search' = global.file_panel_search
    /\ file_dependent_panel_search' = global.file_dependent_panel_search
    /\ files_list' = global.files_list

\* One event handled by AppState::handle_event alone
GlobalStep(event) ==
    LET out == AppState_handle_event(Global, event) IN
    /\ app_event' = event
    /\ app_prev' = Global
    /\ app_emitted' = out.events
    /\ SetGlobal(out.state)
    /\ UNCHANGED << file_panel_index, dependency_causes,
                    viewing_recompile_dependency_file, app_pending,
                    app_panicked, app_dispatched, server_process, main_loop,
                    exit_output, server_checked, adapter_vars, nav_vars, filter_vars >>

OnSelectFile ==
    \E file \in FileEntries :
        GlobalStep([ event |-> "SelectFile", file |-> file ])

OnGetFilesDone ==
    \E list \in FileLists :
        GlobalStep([ event |-> "GetFilesDone", files |-> list ])

OnEnterSearch == GlobalStep([ event |-> "EnterSearch" ])

OnSearchInput ==
    \E char \in SearchChars :
        /\ Len(ActiveSearch(Global).text) < MaxText
        /\ GlobalStep([ event |-> "SearchInput", char |-> char ])

OnSearchInputDelete == GlobalStep([ event |-> "SearchInputDelete" ])

OnSubmitSearch == GlobalStep([ event |-> "SubmitSearch" ])

OnCancel == GlobalStep([ event |-> "Cancel" ])

\* The events AppState::handle_event ignores
OnMove ==
    \E name \in { "DownButtonPressed", "UpButtonPressed" } :
        GlobalStep([ event |-> name ])

\* AppState::new(), before any request is issued
InitAppVars ==
    /\ state_machine = NewGlobalState.state_machine
    /\ selected_dependency_source = NewGlobalState.selected_dependency_source
    /\ file_panel_search = NewGlobalState.file_panel_search
    /\ file_dependent_panel_search = NewGlobalState.file_dependent_panel_search
    /\ files_list = NewGlobalState.files_list
    /\ file_panel_index = 0
    /\ dependency_causes = << >>
    /\ viewing_recompile_dependency_file = None
    /\ app_panicked = FALSE
    /\ app_event = [ event |-> "none" ]
    /\ app_prev = NewGlobalState
    /\ app_emitted = << >>
    /\ app_dispatched = << >>
    /\ server_process = [ exited |-> FALSE, stderr |-> "" ]
    /\ main_loop = "running"
    /\ exit_output = ""
    /\ server_checked = [ called |-> FALSE ]

(***************************************************************************)
(* ------------------------------ utils.rs ------------------------------- *)
(***************************************************************************)

\* term is a subsequence of path
RECURSIVE IsSubsequence(_, _)
IsSubsequence(term, path) ==
    IF term = << >> THEN TRUE
    ELSE IF path = << >> THEN FALSE
    ELSE IF Head(term) = Head(path)
         THEN IsSubsequence(Tail(term), Tail(path))
         ELSE IsSubsequence(term, Tail(path))

\* SkimMatcherV2::fuzzy_match of the fuzzy_matcher crate: None when the
\* term is no subsequence of the path, otherwise a score that is 0 for the
\* empty term and grows with each matched character (the crate's bonuses
\* and penalties are left out).
fuzzy_match(path, term) ==
    IF IsSubsequence(term, path) THEN Some(16 * Len(term)) ELSE None

\* sort_by_key(Reverse(score)), a stable sort: item goes after every item
\* of sorted whose score is not lower
RECURSIVE InsertByScore(_, _)
\* (variant: an item goes before the items of its own score)
InsertByScore_unstable(sorted, item) ==
    IF sorted = << >> THEN << item >>
    ELSE IF Head(sorted).score > item.score
         THEN << Head(sorted) >> \o InsertByScore(Tail(sorted), item)
         ELSE << item >> \o sorted

InsertByScore(sorted, item) ==
    IF sorted = << >> THEN << item >>
    ELSE IF Head(sorted).score >= item.score
         THEN << Head(sorted) >> \o InsertByScore(Tail(sorted), item)
         ELSE << item >> \o sorted

RECURSIVE SortByScore(_, _)
SortByScore(items, sorted) ==
    IF items = << >> THEN sorted
    ELSE SortByScore(Tail(items), InsertByScore(sorted, Head(items)))

\* filter_files_list, given what matcher.fuzzy_match returns for each file:
\* scores[i] is the Option<i64> for list[i]
FilterWith(list, search_term, scores) ==
    IF search_term.kind = "Search"
    THEN LET scored == [ i \in 1 .. Len(list) |->
                           [ file |-> list[i], score |-> scores[i] ] ]
             filtered == SelectSeq(scored,
                            LAMBDA item : /\ IsSome(item.score)
                                          /\ Unwrap(item.score) > 0)
             ordered == SortByScore(
                            [ i \in 1 .. Len(filtered) |->
                                [ file |-> filtered[i].file,
                                  score |-> Unwrap(filtered[i].score) ] ],
                            << >>)
         IN [ i \in 1 .. Len(ordered) |-> ordered[i].file ]
    ELSE list

\* The scores SkimMatcherV2 gives the files of list for the term
MatcherScores(list, term) ==
    [ i \in 1 .. Len(list) |-> fuzzy_match(list[i].path, term) ]

filter_files_list(list, search_term) ==
    FilterWith(list, search_term, MatcherScores(list, search_term.text))

\* The records of filter_list_tests: ["one", "two_one", "three_two"]
TestPaths ==
    << << "o", "n", "e" >>,
       << "t", "w", "o", "_", "o", "n", "e" >>,
       << "t", "h", "r", "e", "e", "_", "t", "w", "o" >> >>

\* The search states a list is filtered by
FilterTerms ==
    { StateNone, Prompt(<< "o" >>), Search(<< "o", "n", "e" >>),
      Search(<< "t", "w", "o" >>) }

\* What fuzzy_match may return for one file: None, 0 or a positive score
ScoreValues == { None, Some(0), Some(16), Some(32) }

\* The calls of filter_files_list considered: every list of up to MaxFiles
\* records with every search state and every outcome of the matcher, the
\* records tagged with the position they are given at
FilterInputs ==
    UNION { { [ list |-> [ i \in 1 .. n |-> [ path |-> paths[i], at |-> i ] ],
                search_term |-> term,
                scores |-> scores ] :
              paths \in [ 1 .. n -> { TestPaths[k] : k \in 1 .. 2 } ],
              term \in FilterTerms,
              scores \in [ 1 .. n -> ScoreValues ] }
            : n \in 0 .. MaxFiles }

\* One call of filter_files_list
FilterCall ==
    /\ filter_output = None
    /\ filter_output' = Some(FilterWith(filter_input.list,
                                        filter_input.search_term,
                                        filter_input.scores))
    /\ UNCHANGED << filter_input, adapter_vars, nav_vars, app_vars >>

\* No call of filter_files_list is being followed
InitFilterVars ==
    /\ filter_input = [ list |-> << >>, search_term |-> StateNone,
                        scores |-> << >> ]
    /\ filter_output = None

(***************************************************************************)
(* ----- components/file_panel.rs, components/dependency_cause_panel.rs -- *)
(***************************************************************************)

\* file_panel::State::handle_event; the SubmitSearch arm is written
\* SubmitSearch(_) in the source.
file_panel_handle_event(index, event, widget) ==
    IF IsSome(widget.files) /\ Unwrap(widget.files) # << >>
    THEN LET list == Unwrap(widget.files) IN
         CASE event.event = "DownButtonPressed" ->
                 IF index < Len(list) - 1 THEN index + 1 ELSE index
           [] event.event = "UpButtonPressed" ->
                 IF index > 0 THEN index - 1 ELSE index
           [] event.event = "SubmitSearch" -> 0
           [] OTHER -> index
    ELSE index

\* file_panel::State::produce_event: the event, or the panic of an index
\* out of bounds
file_panel_produce_event(index, key, widget) ==
    IF key.code = "Enter" /\ IsSome(widget.files)
    THEN IF InBounds(Unwrap(widget.files), index)
         THEN [ event |-> Some([ event |-> "SelectFile",
                                 file |-> At(Unwrap(widget.files), index) ]),
                panic |-> FALSE ]
         ELSE [ event |-> None, panic |-> TRUE ]
    ELSE [ event |-> None, panic |-> FALSE ]

\* file_dependent_panel::State::produce_event
file_dependent_panel_produce_event(state, key, widget) ==
    IF key.code = "Enter"
    THEN LET event == produce_event_enter(state, widget.files) IN
         [ event |-> event, panic |-> ~IsSome(event) ]
    ELSE [ event |-> None, panic |-> FALSE ]

\* (variant: a ViewDependentFile received is answered with an event)
file_dependent_panel_handle_event_echo(state, event, widget) ==
    CASE event.event = "DownButtonPressed" ->
            handle_down_button_pressed(state, widget.files)
      [] event.event = "UpButtonPressed" ->
            handle_up_button_pressed(state, widget.files)
      [] event.event = "SelectDependentFile" ->
            handle_select_dependent_file(state, event.file)
      [] event.event = "Cancel" -> handle_cancel(state)
      [] event.event = "ViewDependentFile" ->
            Done(state, << StopViewDependentFile(event.link) >>)
      [] OTHER -> Done(state, << >>)

\* file_dependent_panel::State::handle_event
file_dependent_panel_handle_event(state, event, widget) ==
    CASE event.event = "DownButtonPressed" ->
            handle_down_button_pressed(state, widget.files)
      [] event.event = "UpButtonPressed" ->
            handle_up_button_pressed(state, widget.files)
      [] event.event = "SelectDependentFile" ->
            handle_select_dependent_file(state, event.file)
      [] event.event = "Cancel" -> handle_cancel(state)
      [] OTHER -> Done(state, << >>)

\* dependency_cause_panel::State::new()
NewCauseState ==
    [ dependency_causes |-> << >>,
      viewing_recompile_dependency_file |-> None ]

\* The call adapter.get_dependency_causes(source, sink, reason, callback)
\* as the main loop keeps it until its completion
CausesRequest(source, sink, reason) ==
    [ kind |-> "GetDependencyCauses", source |-> source, sink |-> sink,
      reason |-> reason, payload |-> CausesPayload(source, sink, reason) ]

\* (variant: the arguments are given in the link's own direction)
dependency_cause_panel_handle_event_unreversed(state, event, widget) ==
    CASE event.event = "SelectDependentFile" ->
            IF IsSome(widget.source_file)
            THEN [ state |-> state,
                   requests |-> << CausesRequest(Unwrap(widget.source_file),
                                                 event.file.path,
                                                 event.file.reason) >>,
                   panic |-> FALSE ]
            ELSE [ state |-> state, requests |-> << >>, panic |-> TRUE ]
      [] event.event = "GetDependencyCausesDone" ->
            [ state |-> [ state EXCEPT !.dependency_causes = event.causes ],
              requests |-> << >>, panic |-> FALSE ]
      [] event.event = "ViewDependentFile" ->
            [ state |-> [ state EXCEPT !.viewing_recompile_dependency_file =
                                           Some(event.link.sink) ],
              requests |-> << >>, panic |-> FALSE ]
      [] event.event = "StopViewDependentFile" ->
            [ state |-> [ state EXCEPT !.viewing_recompile_dependency_file =
                                           None ],
              requests |-> << >>, panic |-> FALSE ]
      [] event.event = "Cancel" ->
            [ state |-> NewCauseState, requests |-> << >>, panic |-> FALSE ]
      [] OTHER -> [ state |-> state, requests |-> << >>, panic |-> FALSE ]

\* dependency_cause_panel::State::handle_event: the new state, the
\* requests given to the adapter and whether unreachable!() was reached
dependency_cause_panel_handle_event(state, event, widget) ==
    CASE event.event = "SelectDependentFile" ->
            IF IsSome(widget.source_file)
            THEN [ state |-> state,
                   requests |-> << CausesRequest(event.file.path,
                                                 Unwrap(widget.source_file),
                                                 event.file.reason) >>,
                   panic |-> FALSE ]
            ELSE [ state |-> state, requests |-> << >>, panic |-> TRUE ]
      [] event.event = "GetDependencyCausesDone" ->
            [ state |-> [ state EXCEPT !.dependency_causes = event.causes ],
              requests |-> << >>, panic |-> FALSE ]
      [] event.event = "ViewDependentFile" ->
            [ state |-> [ state EXCEPT !.viewing_recompile_dependency_file =
                                           Some(event.link.sink) ],
              requests |-> << >>, panic |-> FALSE ]
      [] event.event = "StopViewDependentFile" ->
            [ state |-> [ state EXCEPT !.viewing_recompile_dependency_file =
                                           None ],
              requests |-> << >>, panic |-> FALSE ]
      [] event.event = "Cancel" ->
            [ state |-> NewCauseState, requests |-> << >>, panic |-> FALSE ]
      [] OTHER -> [ state |-> state, requests |-> << >>, panic |-> FALSE ]

(***************************************************************************)
(* ------------------------------- main.rs ------------------------------- *)
(***************************************************************************)

\* Characters of the keys pressed in the main loop: 'j' is also the
\* move-down key, '/' the search key and 'q' the quit key.
KeyChars == { "j", "/", "q" }

\* The key presses read by poll_terminal_event
Keys ==
    { [ code |-> name ] : name \in { "Enter", "Esc", "Backspace",
                                     "Down", "Up" } }
    \cup { [ code |-> "Char", char |-> char ] : char \in KeyChars }

\* GlobalState::produce_event
GlobalState_produce_event(global, key) ==
    LET prompting == \/ is_prompting(global.file_panel_search)
                     \/ is_prompting(global.file_dependent_panel_search)
    IN
    IF key.code = "Char" /\ prompting
    THEN Some([ event |-> "SearchInput", char |-> key.char ])
    ELSE IF key.code = "Backspace" /\ prompting
    THEN Some([ event |-> "SearchInputDelete" ])
    ELSE IF key.code = "Enter" /\ prompting
    THEN Some([ event |-> "SubmitSearch" ])
    ELSE IF key = [ code |-> "Char", char |-> "j" ] \/ key.code = "Down"
    THEN Some([ event |-> "DownButtonPressed" ])
    ELSE IF key = [ code |-> "Char", char |-> "k" ] \/ key.code = "Up"
    THEN Some([ event |-> "UpButtonPressed" ])
    ELSE IF key = [ code |-> "Char", char |-> "/" ]
    THEN Some([ event |-> "EnterSearch" ])
    ELSE IF key.code = "Esc"
    THEN Some([ event |-> "Cancel" ])
    ELSE IF key = [ code |-> "Char", char |-> "q" ]
    THEN Some([ event |-> "Quit" ])
    ELSE None

\* The AppState: the three component states and the GlobalState
App ==
    [ file_panel |-> file_panel_index,
      file_dependent_panel |-> NavState,
      dependency_cause_panel |->
          [ dependency_causes |-> dependency_causes,
            viewing_recompile_dependency_file |->
                viewing_recompile_dependency_file ],
      global |-> Global ]

\* The WidgetBoard built at the start of a frame from get_files_list and
\* get_dependent_files_list
WidgetBoard(app) ==
    LET global == app.global
        source == global.selected_dependency_source
    IN
    [ file_panel |->
          [ files |-> IF IsSome(global.files_list)
                      THEN Some(filter_files_list(Unwrap(global.files_list),
                                                  global.file_panel_search))
                      ELSE None ],
      file_dependent_panel |->
          IF IsSome(source)
          THEN Some([ files |-> filter_files_list(
                                    Unwrap(source).recompile_dependencies,
                                    global.file_dependent_panel_search) ])
          ELSE None,
      dependency_cause_panel |->
          [ source_file |-> IF IsSome(source)
                            THEN Some(Unwrap(source).path) ELSE None ] ]

\* poll_terminal_event, the events pushed: first by
\* GlobalState::produce_event, second by the active panel
PolledEvents(first, second) ==
    [ events |-> first \o second.event, panic |-> second.panic ]

\* (variant: the active panel is asked whether or not a search is
\* prompting)
PanelProducedEvent_unguarded(app, key, widget_board) ==
    IF app.global.state_machine = "FilePanelView"
    THEN file_panel_produce_event(app.file_panel, key,
                                  widget_board.file_panel)
    ELSE IF ~IsSome(widget_board.file_dependent_panel)
         THEN [ event |-> None, panic |-> TRUE ]
         ELSE file_dependent_panel_produce_event(
                  app.file_dependent_panel, key,
                  Unwrap(widget_board.file_dependent_panel))

\* poll_terminal_event, the match on state_machine: the active panel is
\* asked unless the search of its view is prompting; the unwrap() of the
\* dependents widget panics when the board has none
PanelProducedEvent(app, key, widget_board) ==
    IF app.global.state_machine = "FilePanelView"
    THEN IF is_prompting(app.global.file_panel_search)
         THEN [ event |-> None, panic |-> FALSE ]
         ELSE file_panel_produce_event(app.file_panel, key,
                                       widget_board.file_panel)
    ELSE IF is_prompting(app.global.file_dependent_panel_search)
         THEN [ event |-> None, panic |-> FALSE ]
         ELSE IF ~IsSome(widget_board.file_dependent_panel)
         THEN [ event |-> None, panic |-> TRUE ]
         ELSE file_dependent_panel_produce_event(
                  app.file_dependent_panel, key,
                  Unwrap(widget_board.file_dependent_panel))

\* poll_terminal_event: the events of one key press, or the panic of an
\* unwrap() or of an index out of bounds
poll_terminal_event(app, key, widget_board) ==
    PolledEvents(GlobalState_produce_event(app.global, key),
                 PanelProducedEvent(app, key, widget_board))

\* The outcome of dispatch_event: the new AppState, the events sent on the
\* dispatcher, the requests given to the adapter and whether a panic was
\* reached.
Dispatched(app, events, requests, offered) ==
    [ app |-> app, events |-> events, requests |-> requests,
      offered |-> offered, panic |-> FALSE ]

DispatchPanicked(app, offered) ==
    [ app |-> app, events |-> << >>, requests |-> << >>,
      offered |-> offered, panic |-> TRUE ]

\* dispatch_event, the call of the dependents panel: out is what its
\* handle_event returns
DispatchToDependents(app, out) ==
    [ app |-> [ app EXCEPT !.file_dependent_panel = out.state ],
      events |-> out.events, offered |-> << "file_dependent_panel" >>,
      panic |-> out.panic ]

\* (variant: the panel is chosen by the state_machine AppState leaves,
\* where the board has that panel's widget)
DispatchToPanel_after_change(app, event, widget_board) ==
    IF \/ AppState_handle_event(app.global, event).state.state_machine
              = "FilePanelView"
       \/ ~IsSome(widget_board.file_dependent_panel)
    THEN [ app |-> [ app EXCEPT !.file_panel =
                       file_panel_handle_event(@, event,
                                               widget_board.file_panel) ],
           events |-> << >>, offered |-> << "file_panel" >>,
           panic |-> FALSE ]
    ELSE DispatchToDependents(app,
             file_dependent_panel_handle_event(
                 app.file_dependent_panel, event,
                 Unwrap(widget_board.file_dependent_panel)))

\* dispatch_event, the match on state_machine: the active panel handles
\* the event
DispatchToPanel(app, event, widget_board) ==
    IF app.global.state_machine = "FilePanelView"
    THEN [ app |-> [ app EXCEPT !.file_panel =
                       file_panel_handle_event(@, event,
                                               widget_board.file_panel) ],
           events |-> << >>, offered |-> << "file_panel" >>,
           panic |-> FALSE ]
    ELSE DispatchToDependents(app,
             file_dependent_panel_handle_event(
                 app.file_dependent_panel, event,
                 Unwrap(widget_board.file_dependent_panel)))

\* dispatch_event, after the panel: cause is what the cause panel's
\* handle_event returns, global what AppState::handle_event returns.  A
\* panic in a component ends the dispatch there.
DispatchToRest(panel, cause, global) ==
    IF panel.panic THEN DispatchPanicked(panel.app, panel.offered)
    ELSE IF cause.panic
    THEN DispatchPanicked(panel.app,
                          Append(panel.offered, "dependency_cause_panel"))
    ELSE Dispatched([ panel.app EXCEPT
                         !.dependency_cause_panel = cause.state,
                         !.global = global.state ],
                    panel.events \o global.events,
                    cause.requests,
                    panel.offered
                        \o << "dependency_cause_panel", "app_state" >>)

DispatchAfterPanel(panel, event, widget_board) ==
    DispatchToRest(panel,
        dependency_cause_panel_handle_event(
            panel.app.dependency_cause_panel, event,
            widget_board.dependency_cause_panel),
        AppState_handle_event(panel.app.global, event))

\* dispatch_event: the active panel, then the cause panel, then AppState;
\* the unwrap() of the dependents widget panics when the board has none.
dispatch_event(app, event, widget_board) ==
    IF /\ app.global.state_machine = "FileDependentsView"
       /\ ~IsSome(widget_board.file_dependent_panel)
    THEN DispatchPanicked(app, << >>)
    ELSE DispatchAfterPanel(DispatchToPanel(app, event, widget_board),
                            event, widget_board)

\* The loop over the events of one frame: the events still to dispatch,
\* those sent on the dispatcher meanwhile joining the end of the queue.
\* acc collects the AppState, the events sent and the requests issued.
\* dispatched records each dispatch_event call: the event, the
\* state_machine when the call began, the components the event was offered
\* to in order, and the events and requests the call sent.
LoopAccumulate(acc, event, out) ==
    [ app |-> out.app,
      events |-> acc.events \o out.events,
      requests |-> acc.requests \o out.requests,
      dispatched |-> Append(acc.dispatched,
                        [ event |-> event,
                          view |-> acc.app.global.state_machine,
                          offered |-> out.offered,
                          events |-> out.events,
                          requests |-> out.requests ]),
      quit |-> FALSE,
      panic |-> out.panic ]

RECURSIVE DispatchLoop(_, _, _)
DispatchNext(queue, acc, out, widget_board) ==
    DispatchLoop(Tail(queue) \o out.events,
                 LoopAccumulate(acc, Head(queue), out), widget_board)

\* AppEvent::Quit is not dispatched: it breaks out of 'main_loop, the
\* events behind it left in the channel.
DispatchLoop(queue, acc, widget_board) ==
    IF queue = << >> \/ acc.panic THEN acc
    ELSE IF Head(queue).event = "Quit" THEN [ acc EXCEPT !.quit = TRUE ]
    ELSE DispatchNext(queue, acc,
                      dispatch_event(acc.app, Head(queue), widget_board),
                      widget_board)

\* The completion event of a pending request, as its callback sends it
CompletionEvents(request) ==
    IF request.kind = "GetFiles"
    THEN { [ event |-> "GetFilesDone", files |-> list ] : list \in FileLists }
    ELSE { [ event |-> "GetDependencyCausesDone",
             causes |-> << [ source |-> request.source,
                             sink |-> request.sink ] >> ] }

\* The texts the subprocess may have written to stderr when it exits
StderrTexts == { "", "** (Mix) Could not find a Mix.Project" }

\* (variant: the output is returned whether the subprocess exited or not)
check_server_status_always(process) == Some(process.stderr)

\* Adapter::check_server_status: try_wait() tells whether the subprocess
\* has exited; if so everything it wrote to stderr is read and returned.
check_server_status(process) ==
    IF process.exited THEN Some(process.stderr) ELSE None

\* The end of the frame's loop body: a panic leaves the loop by unwinding,
\* Quit by break, and otherwise check_server_status is matched and
\* Some(output) sets exit_output and breaks.
FrameStatus(out) ==
    /\ main_loop' =
          IF out.panic THEN "panicked"
          ELSE IF out.quit THEN "quit"
          ELSE IF IsSome(check_server_status(server_process))
          THEN "server_exited"
          ELSE "running"
    /\ server_checked' =
          IF out.panic \/ out.quit THEN [ called |-> FALSE ]
          ELSE [ called |-> TRUE,
                 result |-> check_server_status(server_process) ]
    /\ exit_output' =
          IF /\ ~out.panic
             /\ ~out.quit
             /\ IsSome(check_server_status(server_process))
          THEN Unwrap(check_server_status(server_process))
          ELSE exit_output
    /\ UNCHANGED server_process

\* The subprocess exits, leaving what it wrote to stderr in the pipe
ServerExit ==
    /\ main_loop = "running"
    /\ ~server_process.exited
    /\ \E text \in StderrTexts :
          server_process' = [ exited |-> TRUE, stderr |-> text ]
    /\ UNCHANGED << state_machine, selected_dependency_source,
                    file_panel_search, file_dependent_panel_search,
                    files_list, file_panel_index, dependency_causes,
                    viewing_recompile_dependency_file, app_pending,
                    app_panicked, app_event, app_prev, app_emitted,
                    app_dispatched, main_loop, exit_output, server_checked,
                    adapter_vars, nav_vars, filter_vars >>

\* The end of a frame: polled is what poll_terminal_event returned, out
\* what the loop over the events left, pending the requests still awaiting
\* their completion.
FrameEnd(polled, out, pending) ==
    /\ main_loop = "running"
    /\ FrameStatus(out)
    /\ ~app_panicked
    /\ Len(pending) <= MaxPending
    /\ app_event' = IF polled.events = << >> THEN [ event |-> "none" ]
                    ELSE Head(polled.events)
    /\ app_emitted' = out.events
    /\ app_dispatched' = out.dispatched
    /\ app_panicked' = out.panic
    /\ app_pending' = pending
    /\ SetGlobal(out.app.global)
    /\ file_panel_index' = out.app.file_panel
    /\ selected_file_index' = out.app.file_dependent_panel.selected_file_index
    /\ expanded_file' = out.app.file_dependent_panel.expanded_file
    /\ dependency_causes' = out.app.dependency_cause_panel.dependency_causes
    /\ viewing_recompile_dependency_file' =
          out.app.dependency_cause_panel.viewing_recompile_dependency_file
    /\ UNCHANGED << app_prev, adapter_vars, files, nav_panicked, nav_op,
                    nav_prev, nav_emitted, viewed_link, view_overlap,
                    viewed_link_c, view_overlap_c, filter_vars >>

FrameLoop(polled, out, completions) ==
    FrameEnd(polled, out,
             SubSeq(app_pending, Len(completions) + 1, Len(app_pending))
                 \o out.requests)

FrameDispatch(polled, completions, widget_board) ==
    FrameLoop(polled,
              DispatchLoop(polled.events \o completions,
                           [ app |-> App, events |-> << >>,
                             requests |-> << >>, dispatched |-> << >>,
                             quit |-> FALSE, panic |-> polled.panic ],
                           widget_board),
              completions)

FramePoll(key, completions, widget_board) ==
    FrameDispatch(IF IsSome(key)
                  THEN poll_terminal_event(App, Unwrap(key), widget_board)
                  ELSE [ events |-> << >>, panic |-> FALSE ],
                  completions, widget_board)

\* One iteration of the main loop: the widget board is built, the
\* completions that have arrived are polled, a key press if there is one
\* is turned into events, and the events are dispatched in order, key
\* events first.  The terminal is taken to be large enough for the lists
\* drawn.
Frame(key, completions) == FramePoll(key, completions, WidgetBoard(App))

\* The text being typed is kept within MaxPrompt characters
WithinPrompt(key) ==
    ( key.code = "Char" /\ is_prompting(ActiveSearch(Global)) )
    => Len(ActiveSearch(Global).text) < MaxPrompt

\* A frame in which a key was pressed and no completion had arrived
KeyFrame ==
    \E key \in Keys : WithinPrompt(key) /\ Frame(Some(key), << >>)

\* A frame in which the completion of the oldest request had arrived, with
\* or without a key press
CompletionFrame ==
    /\ app_pending # << >>
    /\ \E done \in CompletionEvents(Head(app_pending)) :
          \/ Frame(None, << done >>)
          \/ \E key \in Keys : WithinPrompt(key) /\ Frame(Some(key), << done >>)

(***************************************************************************)
(* Specifications.                                                         *)
(***************************************************************************)

\* The adapter, its I/O thread and the subprocess.
InitAdapter ==
    /\ InitAdapterVars
    /\ InitNavVars /\ files = << >>
    /\ InitAppVars /\ app_pending = << >>
    /\ InitFilterVars

NextAdapter ==
    \/ init_server
    \/ get_files
    \/ \E args \in CauseArgs : get_dependency_causes(args[1], args[2], args[3])
    \/ poll_responses
    \/ IoSendRequest
    \/ IoReadLine
    \/ \E line \in Lines : SubprocessWrite(line)

SpecAdapter == InitAdapter /\ [][NextAdapter]_vars

\* The adapter with a subprocess that answers every request but the init
\* request.  The I/O thread runs whenever it can, the main loop polls in
\* every frame, and the subprocess answers what it has read.
NextAdapterFair ==
    \/ init_server
    \/ get_files
    \/ \E args \in CauseArgs : get_dependency_causes(args[1], args[2], args[3])
    \/ poll_responses
    \/ IoSendRequest
    \/ IoReadLine
    \/ SubprocessAnswer

SpecAdapterFair ==
    /\ InitAdapter
    /\ [][NextAdapterFair]_vars
    /\ WF_vars(IoSendRequest)
    /\ WF_vars(IoReadLine)
    /\ WF_vars(poll_responses)
    /\ WF_vars(SubprocessAnswer)

\* The adapter with a subprocess that answers every request it reads, the
\* init request included, or leaves a request unanswered.  The I/O thread
\* runs whenever it can, the main loop polls in every frame, and the
\* subprocess does not leave a request line unread.
NextAdapterAnswered ==
    \/ init_server
    \/ get_files
    \/ \E args \in CauseArgs : get_dependency_causes(args[1], args[2], args[3])
    \/ poll_responses
    \/ IoSendRequest
    \/ IoReadLine
    \/ SubprocessRespond
    \/ SubprocessSkip

SpecAdapterAnswered ==
    /\ InitAdapter
    /\ [][NextAdapterAnswered]_vars
    /\ WF_vars(IoSendRequest)
    /\ WF_vars(IoReadLine)
    /\ WF_vars(poll_responses)
    /\ WF_vars(SubprocessRespond \/ SubprocessSkip)

\* filter_files_list called once on any of FilterInputs.
InitFilter ==
    /\ InitAdapterVars
    /\ InitNavVars /\ files = << >>
    /\ InitAppVars /\ app_pending = << >>
    /\ filter_input \in FilterInputs
    /\ filter_output = None

NextFilter == FilterCall

SpecFilter == InitFilter /\ [][NextFilter]_vars

\* The navigator over one dependents list.
InitNav ==
    /\ InitAdapterVars
    /\ InitNavVars /\ files \in Widgets
    /\ InitAppVars /\ app_pending = << >>
    /\ InitFilterVars

NextNav ==
    \/ DownButtonPressed
    \/ UpButtonPressed
    \/ SelectDependentFile
    \/ Cancel

SpecNav == InitNav /\ [][NextNav]_vars

\* AppState::handle_event driven by events, as in handle_event_tests.
InitGlobal ==
    /\ InitAdapterVars
    /\ InitNavVars /\ files = << >>
    /\ InitAppVars /\ app_pending = << >>
    /\ InitFilterVars

NextGlobal ==
    \/ OnSelectFile
    \/ OnGetFilesDone
    \/ OnEnterSearch
    \/ OnSearchInput
    \/ OnSearchInputDelete
    \/ OnSubmitSearch
    \/ OnCancel
    \/ OnMove

SpecGlobal == InitGlobal /\ [][NextGlobal]_vars

\* The main loop, entered after get_files was called.
InitApp ==
    /\ InitAdapterVars
    /\ InitNavVars /\ files = << >>
    /\ InitAppVars /\ app_pending = << [ kind |-> "GetFiles" ] >>
    /\ InitFilterVars

NextApp == KeyFrame \/ CompletionFrame \/ ServerExit

SpecApp == InitApp /\ [][NextApp]_vars

(***************************************************************************)
(* Properties of the adapter (SpecAdapter).                                *)
(***************************************************************************)

\* The requests handed to the I/O thread, in the order they were sent:
\* those already written to the subprocess, then those still in the channel.
Outbound == child_stdin \o request_channel

\* C1: the sequence ids attached to the outbound requests are 0, 1, 2, ...
\* in call order, whatever mix of init_server, get_files and
\* get_dependency_causes is called: the i-th request issued carries id i-1,
\* so no id is reused or skipped.
C1_SequenceIdsCountFromZero ==
    /\ Len(Outbound) = Len(issued)
    /\ \A i \in 1 .. Len(issued) :
          issued[i].id = i - 1 /\ Outbound[i].id = i - 1

\* C1 witness: three requests were issued, of different kinds.
C1_Witness ==
    /\ Len(issued) >= 3
    /\ issued[1].kind = "Init"
    /\ issued[2].kind = "GetFiles"
    /\ issued[3].kind = "GetDependencyCauses"

\* C2: a completion callback registered for request id n is only ever
\* invoked with the body of a response line whose header id is n.
C2_ResolvedOnlyByOwnId ==
    \A i \in 1 .. Len(callback_log) :
        callback_log[i].line_id = callback_log[i].id

\* C2 witness: the callback of request 1 was invoked after the subprocess
\* had written other lines as well.
C2_Witness ==
    /\ lines_emitted >= 3
    /\ \E i \in 1 .. Len(callback_log) : callback_log[i].id = 1

\* A line is the response the I/O thread waits for.
IsAwaitedResponse(line, awaited) ==
    line.head = "S" /\ line.body # "" /\ awaited = Some(line.id)

\* C3: while a request awaits its response, reading a line that is not a
\* response header, or a response line with another id, discards the line
\* and leaves the I/O thread waiting for the same request.
C3_OtherLinesAreDiscarded ==
    [][ ( /\ io_state = "wait"
          /\ child_stdout # << >>
          /\ child_stdout' = Tail(child_stdout)
          /\ ~IsAwaitedResponse(Head(child_stdout), io_request) )
        => ( io_state' = "wait" /\ io_request' = io_request ) ]_vars

(***************************************************************************)
(* Properties of the navigator (SpecNav).                                  *)
(***************************************************************************)

Outer(state) == state.selected_file_index[1]
Inner(state) == state.selected_file_index[2]

\* The outer index of state points at the expanded entry.
AtExpandedEntry(state) ==
    /\ IsSome(state.expanded_file)
    /\ InBounds(files, Outer(state))
    /\ At(files, Outer(state)).id = Unwrap(state.expanded_file)

\* The chain of the entry the outer index of state points at.
ChainAt(state) == At(files, Outer(state)).dependency_chain

\* C4: the inner index is Some only while the outer index points at the
\* expanded entry.
C4_InnerOnlyAtExpandedEntry ==
    IsSome(selected_file_index[2]) => AtExpandedEntry(NavState)

InsideChain(op) ==
    /\ nav_op = op
    /\ AtExpandedEntry(nav_prev)
    /\ IsSome(Inner(nav_prev))
    /\ InBounds(ChainAt(nav_prev), Unwrap(Inner(nav_prev)))

C7_DownAtLastLinkAlwaysExits ==
    ( InsideChain("down")
      /\ Unwrap(Inner(nav_prev)) = Len(ChainAt(nav_prev)) - 1 )
    => LET k == Unwrap(Inner(nav_prev))
           chain == ChainAt(nav_prev)
       IN /\ ~nav_panicked
          /\ nav_emitted = << StopViewDependentFile(At(chain, k)) >>
          /\ selected_file_index =
                << IF Outer(nav_prev) < Len(files) - 1
                   THEN Outer(nav_prev) + 1 ELSE Outer(nav_prev), None >>
          /\ expanded_file = nav_prev.expanded_file

\* C7 as amended: move-down at the expanded entry with the inner index at
\* the last chain position emits StopViewDependentFile(chain[inner]),
\* clears the inner index and increments the outer index when the outer
\* index is below len-1; when the expanded entry is the last entry it
\* emits nothing and changes nothing, the cursor staying on the last link.
C7_DownAtLastLink ==
    ( InsideChain("down")
      /\ Unwrap(Inner(nav_prev)) = Len(ChainAt(nav_prev)) - 1 )
    => LET k == Unwrap(Inner(nav_prev))
           chain == ChainAt(nav_prev)
       IN /\ ~nav_panicked
          /\ expanded_file = nav_prev.expanded_file
          /\ IF Outer(nav_prev) < Len(files) - 1
             THEN /\ nav_emitted = << StopViewDependentFile(At(chain, k)) >>
                  /\ selected_file_index = << Outer(nav_prev) + 1, None >>
             ELSE /\ nav_emitted = << >>
                  /\ selected_file_index = nav_prev.selected_file_index

\* C7 witness: a move-down on the last link of the last entry of a list of
\* several entries.
C7_Witness ==
    /\ InsideChain("down")
    /\ Unwrap(Inner(nav_prev)) = Len(ChainAt(nav_prev)) - 1
    /\ Outer(nav_prev) = Len(files) - 1
    /\ Len(files) >= 2

\* C8: move-down when the outer index does not point at the expanded entry,
\* or nothing is expanded, increments the outer index clamped to len-1,
\* emits no event and leaves the inner index and the expanded entry
\* unchanged.
C8_DownOutsideExpanded ==
    ( /\ nav_op = "down"
      /\ \/ ~IsSome(nav_prev.expanded_file)
         \/ /\ InBounds(files, Outer(nav_prev))
            /\ At(files, Outer(nav_prev)).id # Unwrap(nav_prev.expanded_file) )
    => /\ ~nav_panicked
       /\ nav_emitted = << >>
       /\ selected_file_index =
             << IF Outer(nav_prev) < Len(files) - 1
                THEN Outer(nav_prev) + 1 ELSE Outer(nav_prev),
                Inner(nav_prev) >>
       /\ expanded_file = nav_prev.expanded_file

\* C8 witness: a move-down on the last entry while another entry is
\* expanded.
C8_Witness ==
    /\ nav_op = "down"
    /\ IsSome(nav_prev.expanded_file)
    /\ ~AtExpandedEntry(nav_prev)
    /\ Outer(nav_prev) = Len(files) - 1
    /\ selected_file_index = nav_prev.selected_file_index

UpFromOuterRow ==
    nav_op = "up" /\ Inner(nav_prev) = None

\* The entry a move-up from nav_prev reaches is the expanded entry.
UpReachesExpanded ==
    /\ IsSome(nav_prev.expanded_file)
    /\ InBounds(files, Outer(nav_prev) - 1)
    /\ At(files, Outer(nav_prev) - 1).id = Unwrap(nav_prev.expanded_file)

C12_ToggleLeavesInnerNone ==
    ( nav_op = "select" /\ InBounds(files, Outer(nav_prev)) )
    => /\ ~nav_panicked
       /\ expanded_file =
             IF nav_prev.expanded_file = Some(At(files, Outer(nav_prev)).id)
             THEN None
             ELSE Some(At(files, Outer(nav_prev)).id)
       /\ selected_file_index[2] = None

\* C13: Cancel resets the navigator from any state: afterwards the outer
\* index is 0, nothing is expanded, the inner index is None, and the
\* navigator has emitted no ViewDependentFile or StopViewDependentFile.
C13_CancelResets ==
    nav_op = "cancel"
    => /\ ~nav_panicked
       /\ selected_file_index = << 0, None >>
       /\ expanded_file = None
       /\ nav_emitted = << >>

\* C13 witness: a Cancel while a link of the expanded second entry was
\* selected.
C13_Witness ==
    /\ nav_op = "cancel"
    /\ AtExpandedEntry(nav_prev)
    /\ Outer(nav_prev) = 1
    /\ IsSome(Inner(nav_prev))
    /\ selected_file_index = << 0, None >>

(***************************************************************************)
(* Properties of AppState::handle_event (SpecGlobal).                      *)
(***************************************************************************)

\* The search input of global that belongs to view
SearchOf(global, view) ==
    IF view = "FilePanelView"
    THEN global.file_panel_search
    ELSE global.file_dependent_panel_search

\* The last event was a Cancel handled in view
CancelIn(view) ==
    app_event.event = "Cancel" /\ app_prev.state_machine = view

\* C14: in the dependents view Cancel is resolved by precedence.  With the
\* dependents search Prompt or Search the Cancel sets that search to None,
\* and the state machine stays in the dependents view with the same
\* anchor; with the dependents search None it returns to the file view and
\* clears the anchor.  Nothing else leaves the dependents view, so from a
\* committed search it takes two Cancel events to reach the file view.
C14_CancelPrecedence ==
    /\ CancelIn("FileDependentsView")
       => IF is_active(app_prev.file_dependent_panel_search)
          THEN /\ file_dependent_panel_search = StateNone
               /\ state_machine = "FileDependentsView"
               /\ selected_dependency_source =
                      app_prev.selected_dependency_source
          ELSE /\ state_machine = "FilePanelView"
               /\ selected_dependency_source = None
    /\ ( /\ app_prev.state_machine = "FileDependentsView"
         /\ state_machine = "FilePanelView" )
       => ( /\ app_event.event = "Cancel"
            /\ ~is_active(app_prev.file_dependent_panel_search) )

\* C14 witness: a Cancel in the dependents view with a committed search of
\* three characters, which stays in the dependents view.
C14_Witness ==
    /\ CancelIn("FileDependentsView")
    /\ app_prev.file_dependent_panel_search.kind = "Search"
    /\ Len(app_prev.file_dependent_panel_search.text) = 3
    /\ state_machine = "FileDependentsView"
    /\ IsSome(selected_dependency_source)

\* C16: in the file view a Cancel with the file search Prompt or Search
\* sets it to None, and a Cancel with the file search None changes nothing;
\* in every case the state machine stays in the file view, the anchor
\* stays absent and no event is sent.
C16_CancelInFileView ==
    CancelIn("FilePanelView")
    => /\ file_panel_search = StateNone
       /\ state_machine = "FilePanelView"
       /\ selected_dependency_source = None
       /\ app_emitted = << >>
       /\ Global = [ app_prev EXCEPT !.file_panel_search = StateNone ]

\* C16 witness: a Cancel in the file view with a committed file search.
C16_Witness ==
    /\ CancelIn("FilePanelView")
    /\ app_prev.file_panel_search.kind = "Search"
    /\ app_prev.file_panel_search.text # << >>
    /\ file_panel_search = StateNone

\* C17: the anchor is present exactly when the state machine is in the
\* dependents view; SelectFile(file) moves to the dependents view with the
\* anchor Some(file) and sends no event; the anchor is cleared exactly on
\* the transition from the dependents view back to the file view.
C17_AnchorIffDependentsView ==
    /\ IsSome(selected_dependency_source)
          <=> state_machine = "FileDependentsView"
    /\ app_event.event = "SelectFile"
       => /\ state_machine = "FileDependentsView"
          /\ selected_dependency_source = Some(app_event.file)
          /\ app_emitted = << >>
    /\ ( /\ IsSome(app_prev.selected_dependency_source)
         /\ selected_dependency_source = None )
          <=> ( /\ app_prev.state_machine = "FileDependentsView"
                /\ state_machine = "FilePanelView" )

\* C17 witness: SelectFile handled in the file view while a file search is
\* committed.
C17_Witness ==
    /\ app_event.event = "SelectFile"
    /\ app_prev.state_machine = "FilePanelView"
    /\ app_prev.file_panel_search.kind = "Search"
    /\ selected_dependency_source = Some(FileWithDependents)

\* text without its last character, text being not empty
IsWithoutLast(shorter, text) ==
    /\ Len(shorter) = Len(text) - 1
    /\ \A i \in 1 .. Len(shorter) : shorter[i] = text[i]

\* C18: the search input of the active view follows the transition table.
\* EnterSearch takes None to Prompt(""); SearchInput(c) takes Prompt(t) to
\* Prompt(t + c); SearchInputDelete takes Prompt(t) to Prompt(t without its
\* last character), Prompt("") staying Prompt(""); SubmitSearch takes
\* Prompt(t) to Search(t); every other pair of state and event leaves the
\* state unchanged; none of the four sends an event.
C18_SearchTransitions ==
    LET before == SearchOf(app_prev, app_prev.state_machine)
        after == SearchOf(Global, app_prev.state_machine)
        name == app_event.event
    IN
    /\ name = "EnterSearch"
       => after = IF before.kind = "None"
                  THEN [ kind |-> "Prompt", text |-> << >> ] ELSE before
    /\ name = "SearchInput"
       => IF before.kind = "Prompt"
          THEN /\ after.kind = "Prompt"
               /\ after.text = before.text \o << app_event.char >>
          ELSE after = before
    /\ name = "SearchInputDelete"
       => IF before.kind = "Prompt" /\ before.text # << >>
          THEN after.kind = "Prompt" /\ IsWithoutLast(after.text, before.text)
          ELSE after = before
    /\ name = "SubmitSearch"
       => after = IF before.kind = "Prompt"
                  THEN [ kind |-> "Search", text |-> before.text ]
                  ELSE before
    /\ name \in { "EnterSearch", "SearchInput", "SearchInputDelete",
                  "SubmitSearch" }
       => app_emitted = << >>

\* C18 witness: SubmitSearch on the prompt "foo" in the file view, which
\* only EnterSearch and SearchInput 'f', 'o', 'o' produce.
C18_Witness ==
    /\ app_event.event = "SubmitSearch"
    /\ app_prev.file_panel_search = Prompt(<< "f", "o", "o" >>)
    /\ file_panel_search = Search(<< "f", "o", "o" >>)

\* The last event was a search event or a Cancel that cleared a search
SearchEventOrClearingCancel ==
    \/ app_event.event \in { "EnterSearch", "SearchInput",
                             "SearchInputDelete", "SubmitSearch" }
    \/ /\ app_event.event = "Cancel"
       /\ is_active(SearchOf(app_prev, app_prev.state_machine))

\* C20: search events and search-clearing cancels change only the search
\* input of the active view.  The file search is unchanged by every event
\* handled in the dependents view and by SelectFile; the dependents search
\* is unchanged by every event handled in the file view; so a committed
\* file search is still committed, with the same text, after SelectFile
\* and the Cancel that returns to the file view.
C20_OnlyActiveSearchChanges ==
    /\ app_prev.state_machine = "FileDependentsView"
       => file_panel_search = app_prev.file_panel_search
    /\ app_event.event = "SelectFile"
       => file_panel_search = app_prev.file_panel_search
    /\ app_prev.state_machine = "FilePanelView"
       => file_dependent_panel_search = app_prev.file_dependent_panel_search
    /\ SearchEventOrClearingCancel
       => /\ state_machine = app_prev.state_machine
          /\ selected_dependency_source = app_prev.selected_dependency_source
          /\ files_list = app_prev.files_list

\* C20 witness: the Cancel that returns to the file view while the file
\* search is committed with the text "foo".
C20_Witness ==
    /\ CancelIn("FileDependentsView")
    /\ state_machine = "FilePanelView"
    /\ file_panel_search = Search(<< "f", "o", "o" >>)

(***************************************************************************)
(* Properties of the main loop (SpecApp).                                  *)
(***************************************************************************)

\* C15: a Cancel dispatched in the dependents view while the dependents
\* search is Prompt or Search clears only the search: once it is fully
\* dispatched, the navigator's cursor and expanded entry and the cause
\* panel's cached causes and viewed marker are what they were before it.
C15_SearchCancelKeepsPanels ==
    [][ ( /\ app_event' = [ event |-> "Cancel" ]
          /\ ~app_panicked'
          /\ app_pending' = app_pending
          /\ state_machine = "FileDependentsView"
          /\ is_active(file_dependent_panel_search) )
        => ( /\ selected_file_index' = selected_file_index
             /\ expanded_file' = expanded_file
             /\ dependency_causes' = dependency_causes
             /\ viewing_recompile_dependency_file' =
                    viewing_recompile_dependency_file ) ]_vars

\* C19: committing a search resets the list cursor of the view that owns
\* the search: after a SubmitSearch dispatched in the file view the file
\* panel's index is 0, and after a SubmitSearch dispatched in the
\* dependents view the navigator's outer index is 0.
C19_CommitResetsCursor ==
    ( app_event = [ event |-> "SubmitSearch" ] /\ ~app_panicked )
    => IF state_machine = "FilePanelView"
       THEN file_panel_index = 0
       ELSE selected_file_index[1] = 0

\* A step of the main loop: one frame (the other steps are the
\* subprocess's)
FrameStep == server_process' = server_process

\* The panel dispatch_event offers an event to in the given state
PanelOf(view) ==
    IF view = "FilePanelView" THEN "file_panel" ELSE "file_dependent_panel"

\* The components of one dispatch_event call begun in the given state
OfferOrder(view) ==
    << PanelOf(view), "dependency_cause_panel", "app_state" >>

IsPrefix(s, t) == Len(s) <= Len(t) /\ s = SubSeq(t, 1, Len(s))

\* A Cancel pressed in the dependents view with no search active there:
\* the Cancel that returns to the file view
ViewPoppingCancel ==
    /\ FrameStep
    /\ app_event' = [ event |-> "Cancel" ]
    /\ state_machine = "FileDependentsView"
    /\ ~is_active(file_dependent_panel_search)
    /\ ~app_panicked'

\* C21: every dispatched event is offered first to the panel of the
\* state_machine value held when its dispatch began, then to the cause
\* panel, last to AppState (a panic ends the offers early); so the Cancel
\* that returns to the file view is still handled by the dependents panel,
\* whose navigator it resets, and a SelectFile by the file panel.
C21_DispatchOrder ==
    [][ /\ \A i \in DOMAIN app_dispatched' :
              LET call == app_dispatched'[i] IN
              /\ IsPrefix(call.offered, OfferOrder(call.view))
              /\ ( i < Len(app_dispatched') \/ ~app_panicked' )
                 => call.offered = OfferOrder(call.view)
        /\ ViewPoppingCancel
           => /\ state_machine' = "FilePanelView"
              /\ app_dispatched'[1].offered[1] = "file_dependent_panel"
              /\ selected_file_index' = NewState.selected_file_index
              /\ expanded_file' = NewState.expanded_file
        /\ ( FrameStep /\ app_event'.event = "SelectFile" /\ ~app_panicked' )
           => /\ state_machine' = "FileDependentsView"
              /\ app_dispatched'[1].offered[1] = "file_panel" ]_vars

\* C21 witness: the Cancel that returned to the file view was dispatched
\* in the dependents view and offered to the dependents panel first.
C21_Witness ==
    /\ app_event = [ event |-> "Cancel" ]
    /\ ~app_panicked
    /\ state_machine = "FilePanelView"
    /\ app_dispatched # << >>
    /\ app_dispatched[1].view = "FileDependentsView"
    /\ app_dispatched[1].offered = OfferOrder("FileDependentsView")

\* C22: within a frame the events a dispatch_event call sent on the
\* dispatcher are the very next events dispatched, before any further
\* event from a key press or a request completion.
C22_FollowUpsNext ==
    ~app_panicked
    => \A i \in DOMAIN app_dispatched :
          \A k \in DOMAIN app_dispatched[i].events :
              /\ i + k <= Len(app_dispatched)
              /\ app_dispatched[i + k].event = app_dispatched[i].events[k]

\* The events that reach dispatch_event through the dispatcher: those sent
\* by the navigator and those sent by the completion callbacks
InternalEvents ==
    { "ViewDependentFile", "StopViewDependentFile", "GetFilesDone",
      "GetDependencyCausesDone" }

\* C23: redispatch terminates: the dispatch of a ViewDependentFile,
\* StopViewDependentFile, GetFilesDone or GetDependencyCausesDone sends no
\* event and issues no request, so a frame dispatches at most the key
\* event, the completion and the two events a key event can send.
C23_InternalEventsEmitNothing ==
    /\ \A i \in DOMAIN app_dispatched :
          app_dispatched[i].event.event \in InternalEvents
          => /\ app_dispatched[i].events = << >>
             /\ app_dispatched[i].requests = << >>
    /\ Len(app_dispatched) <= 4

\* C23 witness: a frame that dispatched a completion and a
\* ViewDependentFile, and ended without a panic.
C23_Witness ==
    /\ ~app_panicked
    /\ \E i \in DOMAIN app_dispatched :
          app_dispatched[i].event.event = "GetDependencyCausesDone"
    /\ \E i \in DOMAIN app_dispatched :
          app_dispatched[i].event.event = "ViewDependentFile"

\* C24: every ViewDependentFile dispatched in a frame that began with a
\* selected_dependency_source makes the cause panel issue exactly one
\* get_dependency_causes request, with source the link's sink and sink the
\* path of the selected source file.
C24_ViewIssuesRequest ==
    [][ \A i \in DOMAIN app_dispatched' :
          LET call == app_dispatched'[i] IN
          ( /\ FrameStep
            /\ call.event.event = "ViewDependentFile"
            /\ IsSome(selected_dependency_source) )
          => /\ Len(call.requests) = 1
             /\ call.requests[1].kind = "GetDependencyCauses"
             /\ call.requests[1].source = call.event.link.sink
             /\ call.requests[1].sink =
                    Unwrap(selected_dependency_source).path ]_vars

\* The dispatch_event calls of the frame just ended that handled the given
\* kind of event
CallsOf(dispatched, name) ==
    { i \in DOMAIN dispatched : dispatched[i].event.event = name }

\* C25: a SelectDependentFile(dep) dispatched while a source file with
\* path a is selected issues exactly one request, whose payload is
\* {"type":"get_dependency_causes","source":dep.path,"sink":a,
\* "reason":dep.reason}; the completion of a pending request is dispatched
\* as one GetDependencyCausesDone and removes the request, and at the end
\* of that frame the cause panel's dependency_causes are the causes the
\* event carried.
C25_SelectFetchesCauses ==
    [][ ( FrameStep /\ ~app_panicked' )
        => /\ \A i \in CallsOf(app_dispatched', "SelectDependentFile") :
                 LET call == app_dispatched'[i]
                     dep == call.event.file
                 IN
                 /\ IsSome(selected_dependency_source)
                 /\ Len(call.requests) = 1
                 /\ call.requests[1].payload =
                        [ type |-> "get_dependency_causes",
                          source |-> dep.path,
                          sink |-> Unwrap(selected_dependency_source).path,
                          reason |-> dep.reason ]
                 /\ app_pending' # << >>
                 /\ app_pending'[Len(app_pending')] = call.requests[1]
           /\ Cardinality(CallsOf(app_dispatched',
                                  "GetDependencyCausesDone")) <= 1
           /\ \A i \in CallsOf(app_dispatched', "GetDependencyCausesDone") :
                 /\ app_pending # << >>
                 /\ Head(app_pending).kind = "GetDependencyCauses"
                 /\ Len(app_pending') =
                        Len(app_pending) - 1
                        + Cardinality(CallsOf(app_dispatched',
                                              "SelectDependentFile"))
                 /\ dependency_causes' = app_dispatched'[i].event.causes ]_vars

\* C25 witness: the frame that dispatched the GetDependencyCausesDone of
\* the request for entry one of the file with dependents; the causes are
\* stored and nothing is pending.
C25_Witness ==
    /\ ~app_panicked
    /\ CallsOf(app_dispatched, "GetDependencyCausesDone") # { }
    /\ dependency_causes = << [ source |-> << "a", "j" >>,
                                sink |-> << "l", "j" >> ] >>
    /\ app_pending = << >>

\* C26: at the end of every frame that leaves the state machine in
\* FilePanelView the cause panel holds no dependency causes and no viewed
\* file, whatever keys were pressed and whenever the completions arrived.
C26_FileViewHasNoCauses ==
    ( state_machine = "FilePanelView" /\ ~app_panicked )
    => /\ dependency_causes = << >>
       /\ viewing_recompile_dependency_file = None

\* C28: one request is in flight at a time and nothing is reordered: the
\* requests written to the subprocess carry the ids 0, 1, 2, ... in order;
\* all of them but the one being awaited have had a response line with
\* their own id accepted; and the responses were pushed to the shared
\* buffer in the order of the requests, the buffer holding the latest of
\* them in that order.
C28_OneRequestInFlight ==
    /\ \A i \in DOMAIN child_stdin : child_stdin[i].id = i - 1
    /\ Len(deposited) =
          IF io_state = "recv" THEN Len(child_stdin) ELSE Len(child_stdin) - 1
    /\ \A i \in DOMAIN deposited :
          /\ deposited[i].id = child_stdin[i].id
          /\ deposited[i].line_id = deposited[i].id
    /\ io_state = "wait" => io_request = Some(Len(child_stdin) - 1)
    /\ Len(pending_responses) <= Len(deposited)
    /\ pending_responses =
          SubSeq(deposited, Len(deposited) - Len(pending_responses) + 1,
                 Len(deposited))

\* C28 witness: the third request is awaited after the responses of the
\* first two were accepted, both still in the buffer.
C28_Witness ==
    /\ Len(child_stdin) = 3
    /\ io_state = "wait"
    /\ Len(deposited) = 2
    /\ Len(pending_responses) = 2

\* A step of the I/O thread: it writes a request or consumes a line
IoThreadStep ==
    \/ child_stdin' # child_stdin
    \/ io_state' # io_state
    \/ deposited' # deposited
    \/ Len(child_stdout') < Len(child_stdout)

\* The ids of the responses buffered for poll_responses that have no
\* registered callback
Unregistered ==
    { pending_responses[i].id : i \in DOMAIN pending_responses }
    \ { pending_requests[i].id : i \in DOMAIN pending_requests }

\* C29: callbacks run only on the UI thread, inside poll_responses: a step
\* that invokes a callback is a poll of a non-empty buffer and no step of
\* the I/O thread, and the I/O thread's steps leave the callbacks and
\* their log alone.  Each callback is invoked at most once, for a request
\* of its own kind issued with a callback, with the body pushed to the
\* buffer under its own id.  A buffered response whose id has no callback
\* registered, such as the init response, leaves the buffer in the poll
\* without any callback being invoked for it.
C29_CallbacksOnlyInPoll ==
    [][ /\ callback_log' # callback_log
           => /\ ~IoThreadStep
              /\ ~ui_panicked
              /\ pending_responses # << >>
              /\ pending_responses' = << >>
              /\ issued' = issued
        /\ IoThreadStep
           => /\ callback_log' = callback_log
              /\ pending_requests' = pending_requests
        /\ \A i, j \in DOMAIN callback_log' :
              callback_log'[i].id = callback_log'[j].id => i = j
        /\ \A i \in DOMAIN callback_log' :
              /\ \E k \in DOMAIN issued' :
                    /\ issued'[k].id = callback_log'[i].id
                    /\ issued'[k].kind = callback_log'[i].kind
                    /\ issued'[k].kind # "Init"
              /\ \E k \in DOMAIN deposited' :
                    /\ deposited'[k].id = callback_log'[i].id
                    /\ deposited'[k].body = callback_log'[i].body
        /\ ( pending_responses # << >> /\ pending_responses' = << >> )
           => \A id \in Unregistered :
                 \A i \in DOMAIN callback_log' : callback_log'[i].id # id ]_vars

\* C29 witness: the responses of init_server and of the get_files after it
\* were buffered and polled; the init response was dropped and only the
\* callback of get_files ran.
C29_Witness ==
    /\ ~ui_panicked
    /\ Len(issued) >= 2
    /\ issued[1].kind = "Init"
    /\ issued[2].kind = "GetFiles"
    /\ Len(deposited) = 2
    /\ pending_responses = << >>
    /\ Len(callback_log) = 1
    /\ callback_log[1].id = 1

(***************************************************************************)
(* Properties of the main loop's shutdown (SpecApp).                       *)
(***************************************************************************)

IssuedAfterInit(id) ==
    \E i, j \in DOMAIN issued :
        /\ i < j
        /\ issued[i].kind = "Init"
        /\ issued[j].id = id
        /\ issued[j].kind # "Init"

Resolved(id) == \E k \in DOMAIN callback_log : callback_log[k].id = id

\* C27: init_server needs no response: with a subprocess that answers
\* every request but the init request, every request issued after
\* init_server is in the end resolved by its callback.
C27_InitNeedsNoResponse ==
    \A id \in 0 .. (MaxRequests - 1) : IssuedAfterInit(id) ~> Resolved(id)

(***************************************************************************)
(* Properties of the adapter's decoding (SpecAdapter).                     *)
(***************************************************************************)

\* A buffered response whose callback is registered and whose body does
\* not decode against the schema its callback expects
UndecodablePending ==
    \E i \in DOMAIN pending_responses, j \in DOMAIN pending_requests :
        /\ pending_requests[j].id = pending_responses[i].id
        /\ IF pending_requests[j].kind = "GetFiles"
           THEN ~DecodesAsFiles(pending_responses[i].body)
           ELSE ~DecodesAsCauses(pending_responses[i].body)

\* C31: a response body that fails to decode is fatal for its request
\* only: the poll that meets it leaves the UI thread running, and every
\* other buffered response with a registered callback still has its
\* callback invoked in that poll.
C31_DecodeFailureIsLocal ==
    [][ ( /\ UndecodablePending
          /\ pending_responses # << >>
          /\ pending_responses' = << >> )
        => /\ ~ui_panicked'
           /\ \A i \in DOMAIN pending_responses :
                 LET r == pending_responses[i] IN
                 ( /\ \E j \in DOMAIN pending_requests :
                          pending_requests[j].id = r.id
                   /\ DecodesAsFiles(r.body) )
                 => \E k \in DOMAIN callback_log' :
                       callback_log'[k].id = r.id ]_vars

(***************************************************************************)
(* Properties of filter_files_list (SpecFilter).                           *)
(***************************************************************************)

\* The score the matcher gave the record, by the position it was given at
ScoreOf(record) == filter_input.scores[record.at]

\* The positions of the records the matcher scored above 0
Matched ==
    { i \in DOMAIN filter_input.list :
        /\ IsSome(filter_input.scores[i])
        /\ Unwrap(filter_input.scores[i]) > 0 }

\* The paths of the list filter_list_tests filters by "one"
TestRecords == [ k \in 1 .. 3 |-> [ path |-> TestPaths[k] ] ]

DisplayedFiles == WidgetBoard(App).file_panel.files

\* poll_terminal_event panicked: the frame ended before any dispatch
PollPanicked == app_panicked' /\ app_dispatched' = << >>

\* C33: the file panel's cursor is a position of the list the panel
\* displays whenever that list is present and not empty, and no key
\* pressed in the file view makes the panel index the displayed list out
\* of bounds, whether the list is empty or a committed search matches no
\* file.
C33_FileCursorValid ==
    [][ /\ ( /\ ~app_panicked'
             /\ IsSome(DisplayedFiles')
             /\ DisplayedFiles' # Some(<< >>) )
           => InBounds(Unwrap(DisplayedFiles'), file_panel_index')
        /\ ( FrameStep /\ state_machine = "FilePanelView" )
           => ~PollPanicked ]_vars

\* C34: every dispatch_event call of a frame that begins with the
\* state machine in FileDependentsView finds the dependents widget on the
\* board built at the start of that frame, whatever was dispatched before
\* it in the same frame.
C34_DependentsWidgetExists ==
    [][ FrameStep =>
          \A i \in 1 .. Len(app_dispatched') :
              app_dispatched'[i].view = "FileDependentsView"
                  => IsSome(WidgetBoard(App).file_dependent_panel) ]_vars

\* The list the dependents panel of the next frame displays
DisplayedDependents == Unwrap(WidgetBoard(App).file_dependent_panel).files

\* The navigator's cursor points into the displayed dependents list
CursorInDisplayed(list, index) ==
    /\ InBounds(list, index[1])
    /\ IsSome(index[2])
          => InBounds(At(list, index[1]).dependency_chain, Unwrap(index[2]))

\* C35: in the dependents view the navigator's outer index is a position
\* of the displayed (filtered) dependents list whenever that list is not
\* empty, its inner index when Some is a position of the chain of the
\* entry at the outer index, and no frame of the dependents view ends in
\* an index out of bounds, whatever keys came before.
C35_NavigatorCursorValid ==
    [][ /\ ( /\ state_machine' = "FileDependentsView"
             /\ ~app_panicked'
             /\ IsSome(WidgetBoard(App).file_dependent_panel')
             /\ DisplayedDependents' # << >> )
           => CursorInDisplayed(DisplayedDependents', selected_file_index')
        /\ ( /\ FrameStep
             /\ state_machine = "FileDependentsView"
             /\ IsSome(WidgetBoard(App).file_dependent_panel) )
           => ~app_panicked' ]_vars

\* The marker the cause panel should hold for the navigator's cursor over
\* the displayed dependents list
MarkerOfCursor(list, index) ==
    IF ~IsSome(index[2]) THEN None
    ELSE IF ~CursorInDisplayed(list, index) THEN Some("no such link")
    ELSE Some(At(At(list, index[1]).dependency_chain,
                 Unwrap(index[2])).sink)

\* The sink of the link announced last before the i-th dispatch of the
\* frame: by a ViewDependentFile of the frame not stopped since, or else
\* the marker held when the frame began
RECURSIVE AnnouncedBefore(_, _, _)
AnnouncedBefore(dispatched, i, marker) ==
    IF i <= 1 THEN marker
    ELSE IF dispatched[i - 1].event.event = "ViewDependentFile"
    THEN Some(dispatched[i - 1].event.link.sink)
    ELSE IF dispatched[i - 1].event.event \in
               { "StopViewDependentFile", "Cancel" }
    THEN None
    ELSE AnnouncedBefore(dispatched, i - 1, marker)

\* C36: after every frame the cause panel's marker is the sink of the
\* chain link under the navigator's cursor when the inner index is Some
\* and None when it is None, and every StopViewDependentFile dispatched
\* names the link announced last and not stopped since.
C36_MarkerAgreesWithNavigator ==
    [][ /\ ( /\ FrameStep
             /\ ~app_panicked'
             /\ state_machine' = "FileDependentsView"
             /\ IsSome(WidgetBoard(App).file_dependent_panel') )
           => viewing_recompile_dependency_file' =
                  MarkerOfCursor(DisplayedDependents', selected_file_index')
        /\ ( FrameStep /\ ~app_panicked' /\
             state_machine' = "FilePanelView" )
           => ( /\ viewing_recompile_dependency_file' = None
                /\ ~IsSome(selected_file_index'[2]) )
        /\ FrameStep
           => \A i \in 1 .. Len(app_dispatched') :
                 app_dispatched'[i].event.event = "StopViewDependentFile"
                 => AnnouncedBefore(app_dispatched', i,
                                    viewing_recompile_dependency_file)
                        = Some(app_dispatched'[i].event.link.sink) ]_vars

(***************************************************************************)
(* Properties of the adapter with a subprocess that answers or leaves      *)
(* requests unanswered (SpecAdapterAnswered).                              *)
(***************************************************************************)

\* The request with the given id was issued with a completion callback
IssuedWithCallback(id) ==
    \E j \in DOMAIN issued : issued[j].id = id /\ issued[j].kind # "Init"

\* The subprocess left the request with the given id, or one issued before
\* it, unanswered
UnansweredUpTo(id) == \E s \in subprocess_skipped : s <= id

KeyEvents(key) == poll_terminal_event(App, key, WidgetBoard(App)).events

\* C38: the search of the view that is not active is never prompting: in
\* FilePanelView the dependents search is None, in FileDependentsView the
\* file search is None or Search; and poll_terminal_event returns at most
\* one event for a key press.
C38_InactiveSearchNotPrompting ==
    /\ state_machine = "FilePanelView"
          => file_dependent_panel_search.kind = "None"
    /\ state_machine = "FileDependentsView"
          => ~is_prompting(file_panel_search)
    /\ main_loop = "running"
          => \A key \in Keys : Len(KeyEvents(key)) <= 1

\* The dependents view entered from a committed file search, its own
\* search being typed
C38_Witness ==
    /\ state_machine = "FileDependentsView"
    /\ file_panel_search.kind = "Search"
    /\ is_prompting(file_dependent_panel_search)
    /\ main_loop = "running"
    /\ KeyEvents([ code |-> "Enter" ]) = << [ event |-> "SubmitSearch" ] >>

\* The keys of the model and the character 'k'
PromptKeys == Keys \cup { [ code |-> "Char", char |-> "k" ] }

\* The search of the active view is prompting
ActivePrompting == is_prompting(ActiveSearch(Global))

\* What the search makes of a key it captures
CapturedAs(key) ==
    CASE key.code = "Char" ->
            << [ event |-> "SearchInput", char |-> key.char ] >>
      [] key.code = "Backspace" -> << [ event |-> "SearchInputDelete" ] >>
      [] key.code = "Enter" -> << [ event |-> "SubmitSearch" ] >>
      [] key.code = "Esc" -> << [ event |-> "Cancel" ] >>
      [] key.code = "Down" -> << [ event |-> "DownButtonPressed" ] >>
      [] key.code = "Up" -> << [ event |-> "UpButtonPressed" ] >>

\* The events a captured key must not turn into
NotWhilePrompting ==
    { "DownButtonPressed", "UpButtonPressed", "EnterSearch", "Quit",
      "SelectFile", "SelectDependentFile" }

\* With no search prompting, Enter gives at most the select event of the
\* active panel
EnterSelectsOnly ==
    ~ActivePrompting
    => \A i \in DOMAIN KeyEvents([ code |-> "Enter" ]) :
          KeyEvents([ code |-> "Enter" ])[i].event =
              IF state_machine = "FilePanelView" THEN "SelectFile"
              ELSE "SelectDependentFile"

\* C39 (as stated): while the active view's search is prompting, a
\* character key gives SearchInput(c), Backspace SearchInputDelete, Enter
\* SubmitSearch and Esc Cancel, and no key gives a move, EnterSearch,
\* Quit, SelectFile or SelectDependentFile; with no search prompting Enter
\* gives only the active panel's select event.
C39_PromptCapturesEveryKey ==
    /\ ActivePrompting
          => \A key \in PromptKeys :
                /\ key.code \in { "Char", "Backspace", "Enter", "Esc" }
                      => KeyEvents(key) = CapturedAs(key)
                /\ \A i \in DOMAIN KeyEvents(key) :
                      KeyEvents(key)[i].event \notin NotWhilePrompting
    /\ EnterSelectsOnly

\* C39 (amended): while the active view's search is prompting, a
\* character key gives SearchInput(c), Backspace SearchInputDelete, Enter
\* SubmitSearch and Esc Cancel, and none of these keys gives a move,
\* EnterSearch, Quit, SelectFile or SelectDependentFile; the Down and Up
\* arrow keys are not captured and still give DownButtonPressed and
\* UpButtonPressed.  With no search prompting Enter gives only the active
\* panel's select event.
C39_PromptCapturesTypedKeys ==
    /\ ActivePrompting
          => \A key \in PromptKeys :
                /\ KeyEvents(key) = CapturedAs(key)
                /\ key.code \notin { "Down", "Up" }
                      => \A i \in DOMAIN KeyEvents(key) :
                            KeyEvents(key)[i].event \notin NotWhilePrompting
    /\ EnterSelectsOnly

\* The dependents search is being typed over a list with an entry under
\* the cursor: 'k' is taken as text, the Down arrow still moves
C39_Witness ==
    /\ state_machine = "FileDependentsView"
    /\ ActivePrompting
    /\ main_loop = "running"
    /\ DisplayedDependents # << >>
    /\ KeyEvents([ code |-> "Char", char |-> "k" ]) =
           << [ event |-> "SearchInput", char |-> "k" ] >>
    /\ KeyEvents([ code |-> "Down" ]) = << [ event |-> "DownButtonPressed" ] >>

=============================================================================
